---------------------------- MODULE Spec2Model ----------------------------
(***************************************************************************)
(* Model of graphql-polygon-api: the polygon_client request pipeline       *)
(* (validate, build identifier, one HTTP GET, decode, classify) for the    *)
(* crypto and options modules, and the graphql_wrapper facades on top.     *)
(*                                                                         *)
(* Python str values that the code inspects character by character are     *)
(* sequences of one-character strings; whole-string tokens (timespan,      *)
(* upstream status) are TLA+ strings.  A Python float strike is the double *)
(* nearest to a whole number of thousandths, or NaN.                       *)
(***************************************************************************)
EXTENDS Integers, Sequences, FiniteSets, TLC

VARIABLES
    KEY,        \* polygon_client.KEY, the process-wide API key
    pc,         \* "idle" | "awaiting" (blocked in requests.get) | "done"
    call,       \* the invocation: [layer, op, args]
    ticker,     \* the identifier built by the "input morphing" block
    endpoint,   \* the URL handed to requests.get
    gets,       \* HTTP GETs issued by this invocation
    steps,      \* the pipeline steps this invocation has performed, in order
    response,   \* what the upstream answered
    outcome,    \* how the invocation ended: [type, msg, value]
    inv,        \* the parameters and local variables of each concurrent invocation
    stdout,     \* what the invocation has written to standard output
    payload     \* the decoded body as the invocation leaves it

vars ==
    <<KEY, pc, call, ticker, endpoint, gets, steps, response, outcome, inv, stdout, payload>>

----------------------------------------------------------------------------
(* Bounds of the model *)

\* an invocation differs from the operation's default call in at most this many parameters
MaxOverrides == 2
\* upstream 'resultsCount' ranges over 0..MaxResultsCount
MaxResultsCount == 1
\* upstream 'results' arrays hold at most this many elements
MaxResults == 1
\* the results array handed to a facade holds at most this many results
MaxBars == 2
\* trades in each list of a daily open/close body
MaxTrades == 1
\* invocations in progress at the same time
MaxInvocations == 2

(* Program constants *)
MinMultiplier == 1
MinLimit == 1
MaxLimit == 50000
\* 99999.999 in thousandths
MaxStrike == 99999999
MinStrike == 0
\* zfill(8)
StrikeWidth == 8
\* expiration[:2], expiration[2:], result["T"][:2]
PrefixLen == 2
\* strike * 1000, result["t"] / 1000
Thousand == 1000

----------------------------------------------------------------------------
(* Python str helpers on character sequences *)

\* c in s
Contains(s, c) == \E i \in 1..Len(s) : s[i] = c

\* s[:n]
Take(s, n) == IF Len(s) <= n THEN s ELSE SubSeq(s, 1, n)

\* s[n:]
Drop(s, n) == IF Len(s) <= n THEN <<>> ELSE SubSeq(s, n + 1, Len(s))

\* s.replace(c, "")
Remove(s, c) == SelectSeq(s, LAMBDA x : x # c)

DigitChar(d) == <<"0", "1", "2", "3", "4", "5", "6", "7", "8", "9">>[d + 1]

\* str(n) for an int n >= 0
RECURSIVE StrOfNat(_)
StrOfNat(n) == IF n < 10 THEN <<DigitChar(n)>>
               ELSE StrOfNat(n \div 10) \o <<DigitChar(n % 10)>>

\* s.zfill(w) for a string without sign
RECURSIVE Zfill(_, _)
Zfill(s, w) == IF Len(s) >= w THEN s ELSE Zfill(<<"0">> \o s, w)

----------------------------------------------------------------------------
(* String values used as inputs *)

Empty == <<>>
BTC == <<"B", "T", "C">>
USD == <<"U", "S", "D">>
AAPL == <<"A", "A", "P", "L">>
SlashCode == <<"A", "/", "B">>
Date0105 == <<"2", "0", "2", "4", "-", "0", "1", "-", "0", "5">>
Date0101 == <<"2", "0", "2", "4", "-", "0", "1", "-", "0", "1">>
DateSlashes == <<"2", "0", "2", "4", "/", "0", "1", "/", "0", "5">>
DateMixed == <<"2", "0", "2", "4", "-", "0", "1", "/", "0", "5">>
DateNoDash == <<"2", "0", "2", "4", "0", "1", "0", "5">>
Exp0621 == <<"2", "0", "2", "4", "-", "0", "6", "-", "2", "1">>
Exp1999 == <<"1", "9", "9", "9", "-", "0", "6", "-", "2", "1">>
ExpShort == <<"2", "0", "2", "4", "-", "6", "-", "1">>
ExpDashOnly == <<"2", "0", "-">>
ExpOneChar == <<"2", "-">>
ExpSlashes == <<"2", "0", "2", "4", "/", "0", "6", "/", "2", "1">>
ExpNoDash == <<"2", "0", "2", "4", "0", "6", "2", "1">>

CurrencyCodes == {Empty, SlashCode, BTC, USD}
Tickers == {Empty, SlashCode, AAPL}
Dates == {Empty, DateSlashes, DateMixed, DateNoDash, Date0101, Date0105}
Expirations == {Empty, ExpSlashes, ExpNoDash, Exp1999, ExpOneChar, ExpDashOnly,
                ExpShort, Exp0621}
Multipliers == {0, 1, 2}
possible_timespans == {"minute", "hour", "day", "week", "month", "quarter", "year"}
Timespans == {"day", "year", "DAY", ""}
Limits == {-1, 0, 1, 5000, 50000, 50001}

----------------------------------------------------------------------------
(* Python float strikes *)

\* the double nearest to th/1000
Finite(th) == [nan |-> FALSE, th |-> th]
NaN == [nan |-> TRUE, th |-> 0]

Strikes == {Finite(-1), Finite(0), Finite(1), Finite(1001), Finite(150500),
            Finite(99999999), Finite(100000000), NaN}

\* strike < 0: comparisons with NaN are False
StrikeBelow(strike, bound) == ~strike.nan /\ strike.th < bound

\* StrikeAbove with `>=` for `>`
StrikeAboveOrEqual(strike, bound) == ~strike.nan /\ strike.th >= bound

\* strike > 99999.999
StrikeAbove(strike, bound) == ~strike.nan /\ strike.th > bound

RECURSIVE PowMod(_, _, _)
PowMod(b, e, m) == IF e = 0 THEN 1 % m ELSE (b * PowMod(b, e - 1, m)) % m

RECURSIVE Pow2(_)
Pow2(e) == IF e = 0 THEN 1 ELSE 2 * Pow2(e - 1)

\* floor(log2(k)) for k >= 1
RECURSIVE Log2(_)
Log2(k) == IF k < 2 THEN 0 ELSE 1 + Log2(k \div 2)

IsPow2(k) == k = Pow2(Log2(k))

\* the least j >= 0 with k * 2^j >= 1000, for 1 <= k < 1000
RECURSIVE ShiftUp(_, _)
ShiftUp(k, j) == IF k * Pow2(j) >= Thousand THEN j ELSE ShiftUp(k, j + 1)

\* the binary exponent of the double k/1000: floor(log2(k/1000)), for k >= 1
Exp1000(k) == IF k >= Thousand THEN Log2(k \div Thousand) ELSE 0 - ShiftUp(k, 1)

\* int(strike * 1000) in IEEE-754 binary64, round to nearest even, for the
\* double nearest to k/1000, 0 <= k < 2^27 (every strike that passes
\* validation).  With q the exponent of k/1000 and
\* s = 52 - q, the stored mantissa is k*2^s/1000 rounded; r is the remainder
\* k*2^s mod 1000 (a multiple of 8, so never the tie 500).  The product with
\* 1000 is k - r/2^s when the mantissa was rounded down; it rounds to the
\* double below k, and int() truncates to k - 1, exactly when r exceeds half
\* the spacing of doubles just below k, in units of 2^-s.
IntTimes1000(k) ==
    IF k = 0 THEN 0
    ELSE LET q == Exp1000(k)
             s == 52 - q
             r == ((k % Thousand) * PowMod(2, s, Thousand)) % Thousand
             p == IF IsPow2(k) THEN Log2(k) - 1 ELSE Log2(k)
             half == Pow2(p - 1 - q)
         IN  IF r = 0 \/ r >= 500 THEN k
             ELSE IF r > half THEN k - 1 ELSE k

----------------------------------------------------------------------------
(* polygon_client: initial input validation.  Each operator is the chain of *)
(* checks of one function, in source order; its value is the message of    *)
(* the ValueError raised, or NoError when every check passes.              *)

NoError == ""

\* crypto_get_aggregates_validate with the currency_to checks moved before currency_from
crypto_get_aggregates_validate_to_first(a) ==
    IF a.currency_to = Empty THEN "'currency_to' should be non-empty."
    ELSE IF Contains(a.currency_to, "/") THEN "'currency_to' should not include '/'."
    ELSE IF a.currency_from = Empty THEN "'currency_from' should be non-empty."
    ELSE IF Contains(a.currency_from, "/") THEN "'currency_from' should not include '/'."
    ELSE IF a.from_ = Empty THEN "'from_' date should be non-empty."
    ELSE IF Contains(a.from_, "/") THEN "'from_' date should not include '/'."
    ELSE IF ~Contains(a.from_, "-") THEN "'from_' date should be of format 'YYYY-MM-DD'."
    ELSE IF a.to = Empty THEN "'to' date should be non-empty."
    ELSE IF Contains(a.to, "/") THEN "'to' date should not include '/'."
    ELSE IF ~Contains(a.to, "-") THEN "'to' date should be of format 'YYYY-MM-DD'."
    ELSE IF a.multiplier < MinMultiplier THEN "Timespan 'multiplier' should be at least 1."
    ELSE IF a.timespan \notin possible_timespans
        THEN "'timespan' should be 'minute', 'hour', 'day', 'week', 'month', 'quarter', or 'year'."
    ELSE IF a.limit < MinLimit THEN "'limit' should be at least 1."
    ELSE IF a.limit > MaxLimit THEN "'limit' should be no more than 50000."
    ELSE NoError

crypto_get_aggregates_validate(a) ==
    IF a.currency_from = Empty THEN "'currency_from' should be non-empty."
    ELSE IF Contains(a.currency_from, "/") THEN "'currency_from' should not include '/'."
    ELSE IF a.currency_to = Empty THEN "'currency_to' should be non-empty."
    ELSE IF Contains(a.currency_to, "/") THEN "'currency_to' should not include '/'."
    ELSE IF a.from_ = Empty THEN "'from_' date should be non-empty."
    ELSE IF Contains(a.from_, "/") THEN "'from_' date should not include '/'."
    ELSE IF ~Contains(a.from_, "-") THEN "'from_' date should be of format 'YYYY-MM-DD'."
    ELSE IF a.to = Empty THEN "'to' date should be non-empty."
    ELSE IF Contains(a.to, "/") THEN "'to' date should not include '/'."
    ELSE IF ~Contains(a.to, "-") THEN "'to' date should be of format 'YYYY-MM-DD'."
    ELSE IF a.multiplier < MinMultiplier THEN "Timespan 'multiplier' should be at least 1."
    ELSE IF a.timespan \notin possible_timespans
        THEN "'timespan' should be 'minute', 'hour', 'day', 'week', 'month', 'quarter', or 'year'."
    ELSE IF a.limit < MinLimit THEN "'limit' should be at least 1."
    ELSE IF a.limit > MaxLimit THEN "'limit' should be no more than 50000."
    ELSE NoError

crypto_get_daily_open_close_validate(a) ==
    IF a.currency_from = Empty THEN "'currency_from' should be non-empty."
    ELSE IF Contains(a.currency_from, "/") THEN "'currency_from' should not include '/'."
    ELSE IF a.currency_to = Empty THEN "'currency_to' should be non-empty."
    ELSE IF Contains(a.currency_to, "/") THEN "'currency_to' should not include '/'."
    ELSE IF a.date = Empty THEN "'date' should be non-empty."
    ELSE IF Contains(a.date, "/") THEN "'date' should not include '/'."
    ELSE IF ~Contains(a.date, "-") THEN "'date' should be of format 'YYYY-MM-DD'."
    ELSE NoError

\* crypto_get_grouped_daily_validate without the check of '/' in date
crypto_get_grouped_daily_validate_without_separator(a) ==
    IF a.date = Empty THEN "'date' should be non-empty."
    ELSE IF ~Contains(a.date, "-") THEN "'date' should be of format 'YYYY-MM-DD'."
    ELSE NoError

crypto_get_grouped_daily_validate(a) ==
    IF a.date = Empty THEN "'date' should be non-empty."
    ELSE IF Contains(a.date, "/") THEN "'date' should not include '/'."
    ELSE IF ~Contains(a.date, "-") THEN "'date' should be of format 'YYYY-MM-DD'."
    ELSE NoError

crypto_get_previous_close_validate(a) ==
    IF a.currency_from = Empty THEN "'currency_from' should be non-empty."
    ELSE IF Contains(a.currency_from, "/") THEN "'currency_from' should not include '/'."
    ELSE IF a.currency_to = Empty THEN "'currency_to' should be non-empty."
    ELSE IF Contains(a.currency_to, "/") THEN "'currency_to' should not include '/'."
    ELSE NoError

\* the checks on ticker, expiration and strike that open all three options functions
options_contract_validate(a) ==
    IF a.ticker = Empty THEN "'ticker' should be non-empty."
    ELSE IF Contains(a.ticker, "/") THEN "'ticker' should not include '/'."
    ELSE IF a.expiration = Empty THEN "'expiration' date should be non-empty."
    ELSE IF Contains(a.expiration, "/") THEN "'expiration' date should not include '/'."
    ELSE IF ~Contains(a.expiration, "-") THEN "'expiration' date should be of format 'YYYY-MM-DD'."
    ELSE IF Take(a.expiration, PrefixLen) # <<"2", "0">>
        THEN "'expiration' date should be in the 21st century."
    ELSE IF StrikeBelow(a.strike, MinStrike) THEN "'strike' price should be greater than $0."
    ELSE IF StrikeAbove(a.strike, MaxStrike) THEN "'strike' price should be less than $99999.999."
    ELSE NoError

\* options_get_aggregates_validate with `limit >= 50000` for `limit > 50000`
options_get_aggregates_validate_limit_off_by_one(a) ==
    IF options_contract_validate(a) # NoError THEN options_contract_validate(a)
    ELSE IF a.from_ = Empty THEN "'from_' date should be non-empty."
    ELSE IF Contains(a.from_, "/") THEN "'from_' date should not include '/'."
    ELSE IF ~Contains(a.from_, "-") THEN "'from_' date should be of format 'YYYY-MM-DD'."
    ELSE IF a.to = Empty THEN "'to' date should be non-empty."
    ELSE IF Contains(a.to, "/") THEN "'to' date should not include '/'."
    ELSE IF ~Contains(a.to, "-") THEN "'to' date should be of format 'YYYY-MM-DD'."
    ELSE IF a.multiplier < MinMultiplier THEN "Timespan 'multiplier' should be at least 1."
    ELSE IF a.timespan \notin possible_timespans
        THEN "'timespan' should be 'minute', 'hour', 'day', 'week', 'month', 'quarter', or 'year'."
    ELSE IF a.limit < MinLimit THEN "'limit' should be at least 1."
    ELSE IF a.limit >= MaxLimit THEN "'limit' should be no more than 50000."
    ELSE NoError

options_get_aggregates_validate(a) ==
    IF options_contract_validate(a) # NoError THEN options_contract_validate(a)
    ELSE IF a.from_ = Empty THEN "'from_' date should be non-empty."
    ELSE IF Contains(a.from_, "/") THEN "'from_' date should not include '/'."
    ELSE IF ~Contains(a.from_, "-") THEN "'from_' date should be of format 'YYYY-MM-DD'."
    ELSE IF a.to = Empty THEN "'to' date should be non-empty."
    ELSE IF Contains(a.to, "/") THEN "'to' date should not include '/'."
    ELSE IF ~Contains(a.to, "-") THEN "'to' date should be of format 'YYYY-MM-DD'."
    ELSE IF a.multiplier < MinMultiplier THEN "Timespan 'multiplier' should be at least 1."
    ELSE IF a.timespan \notin possible_timespans
        THEN "'timespan' should be 'minute', 'hour', 'day', 'week', 'month', 'quarter', or 'year'."
    ELSE IF a.limit < MinLimit THEN "'limit' should be at least 1."
    ELSE IF a.limit > MaxLimit THEN "'limit' should be no more than 50000."
    ELSE NoError

options_get_daily_open_close_validate(a) ==
    IF options_contract_validate(a) # NoError THEN options_contract_validate(a)
    ELSE IF a.date = Empty THEN "'date' should be non-empty."
    ELSE IF Contains(a.date, "/") THEN "'date' should not include '/'."
    ELSE IF ~Contains(a.date, "-") THEN "'date' should be of format 'YYYY-MM-DD'."
    ELSE NoError

options_get_previous_close_validate(a) == options_contract_validate(a)

----------------------------------------------------------------------------
(* polygon_client: input morphing *)

\* crypto_ticker with the two currencies in the other order
crypto_ticker_from_first(a) == <<"X", ":">> \o a.currency_from \o a.currency_to

\* ticker = f"X:{currency_to}{currency_from}"
crypto_ticker(a) == <<"X", ":">> \o a.currency_to \o a.currency_from

\* expiration = expiration[2:].replace("-", "")
options_expiration(expiration) == Remove(Drop(expiration, PrefixLen), "-")

\* int(strike * 1000) raises ValueError on NaN
options_strike_raises(strike) == strike.nan

\* strike = str(int(strike * 1000)).zfill(8), for a strike that passed validation
options_strike(strike) == Zfill(StrOfNat(IntTimes1000(strike.th)), StrikeWidth)

\* ticker = f"O:{ticker}{expiration}C{strike}" or ...P...
options_ticker(a) ==
    IF a.call
    THEN <<"O", ":">> \o a.ticker \o options_expiration(a.expiration) \o <<"C">>
         \o options_strike(a.strike)
    ELSE <<"O", ":">> \o a.ticker \o options_expiration(a.expiration) \o <<"P">>
         \o options_strike(a.strike)

\* SortToken with the two tokens exchanged
SortToken_exchanged(ascending) == IF ascending THEN "desc" ELSE "asc"

\* sort = "asc" if ascending else "desc"
SortToken(ascending) == IF ascending THEN "asc" ELSE "desc"

\* f"{adjusted}" of a bool
StrOfBool(b) == IF b THEN "True" ELSE "False"

----------------------------------------------------------------------------
(* Decoded upstream JSON.  A value is [type, status, error, message,       *)
(* resultsCount, results]; for an object each key is <<>> when absent and  *)
(* <<v>> when present.  Upstream error and message strings are [text, arg] *)
(* with arg the value interpolated at "{}" in text, so that equality of    *)
(* two strings is equality of their characters.                            *)

Txt(t) == [text |-> t, arg |-> <<>>]
TxtWith(t, x) == [text |-> t, arg |-> x]

Has(data, k) == Len(data[k]) > 0
Get(data, k) == data[k][1]

ERR_TO_BEFORE_FROM == Txt("The parameter 'to' cannot be a time that occurs before 'from'")
ERR_PARSE_TO == Txt("Could not parse the time parameter: 'to'. Use YYYY-MM-DD or Unix MS Timestamps")
ERR_PARSE_FROM == Txt("Could not parse the time parameter: 'from'. Use YYYY-MM-DD or Unix MS Timestamps")
ERR_TODAY == Txt("today's Date not supported yet")
ERR_PARSE_DATE == Txt("could not parse from Date. use YYYY-MM-DD timestamps")
ERR_TICKER == Txt("Ticker was incorrectly formatted")
ERR_RATE == Txt("You've exceeded the maximum requests per minute, please wait or upgrade your subscription to continue.")
\* the source writes the word date between backquotes
ERR_DATE_INVALID(date) ==
    TxtWith("The path parameter date with value {} is invalid, must be of the format YYYY-MM-DD.", date)
MSG_NOT_FOUND == Txt("Data not found.")
MSG_ENTITLEMENT == Txt("Attempted to request data past historical entitlements. Please upgrade your plan at https://polygon.io/pricing")

(* How an invocation ends *)
Raise(type, msg) == [type |-> type, msg |-> msg, value |-> <<>>]
Return(v) == [type |-> "return", msg |-> "", value |-> <<v>>]
NoOutcome == [type |-> "none", msg |-> "", value |-> <<>>]

MSG_UNKNOWN_WITH_MESSAGE ==
    "Something went wrong. Unknown {status} status received from endpoint ({endpoint}). Received message: {message}."
MSG_UNKNOWN_WITH_ERROR ==
    "Something went wrong. Unknown {status} status received from endpoint ({endpoint}). Received error: {error}."
MSG_UNKNOWN == "Something went wrong. Unknown {status} status received from endpoint ({endpoint})."
MSG_RATE == "Maximum requests per minute has been exceeded. Perhaps use a premium API key."
MSG_CONNECT == "Error connecting to endpoint ({endpoint})."
MSG_NON_JSON == "Unexpected non-JSON response from endpoint ({endpoint})."

\* data[k] on a value that is no dict raises TypeError, on a dict without k KeyError
Readable(data, k) == data.type = "object" /\ Has(data, k)
ReadError(data, k) ==
    IF data.type # "object" THEN Raise("TypeError", k) ELSE Raise("KeyError", k)

\* the block `if data["status"] != "OK":` shared by every function
unknown_status(data) ==
    IF Has(data, "message") THEN Raise("Exception", MSG_UNKNOWN_WITH_MESSAGE)
    ELSE IF Has(data, "error") THEN Raise("Exception", MSG_UNKNOWN_WITH_ERROR)
    ELSE Raise("Exception", MSG_UNKNOWN)

----------------------------------------------------------------------------
(* polygon_client: output validation, one operator per function *)

crypto_get_aggregates_classify(data, a) ==
    IF ~Readable(data, "status") THEN ReadError(data, "status")
    ELSE IF Get(data, "status") = "ERROR" /\ ~Has(data, "error") THEN Raise("KeyError", "error")
    ELSE IF (Get(data, "status") = "ERROR" /\ Get(data, "error") = ERR_TO_BEFORE_FROM)
        THEN Raise("ValueError", "'to' should be a date that occurs after 'from_'.")
    ELSE IF (Get(data, "status") = "ERROR" /\ Get(data, "error") = ERR_PARSE_TO)
        THEN Raise("ValueError", "'to' should be of format 'YYYY-MM-DD'.")
    ELSE IF (Get(data, "status") = "ERROR" /\ Get(data, "error") = ERR_PARSE_FROM)
        THEN Raise("ValueError", "'from_' should be of format 'YYYY-MM-DD'.")
    ELSE IF Get(data, "status") # "OK" THEN unknown_status(data)
    ELSE IF ~Has(data, "resultsCount") THEN Raise("KeyError", "resultsCount")
    ELSE IF Get(data, "resultsCount") = 0
        THEN Raise("ValueError", "Data not found for {ticker} from {from_} to {to} within {limit} {timespan} query limit. Perhaps currency pair is incorrect/unavailable, the market was not open in that date range, or 'limit' is too small.")
    ELSE Return(data)

crypto_get_daily_open_close_classify(data, a) ==
    IF data.type \in {"number", "null"} THEN Raise("TypeError", "status")
    ELSE IF data.type # "object" \/ ~Has(data, "status") THEN Return(data)
    ELSE IF Get(data, "status") = "ERROR" /\ ~Has(data, "error") THEN Raise("KeyError", "error")
    ELSE IF (Get(data, "status") = "ERROR" /\ Get(data, "error") = ERR_TODAY)
        THEN Raise("ValueError", "'date' is not supported yet. Perhaps 'date' is in the future.")
    ELSE IF (Get(data, "status") = "ERROR" /\ Get(data, "error") = ERR_PARSE_DATE)
        THEN Raise("ValueError", "'date' should be of format 'YYYY-MM-DD'.")
    ELSE IF (Get(data, "status") = "ERROR" /\ Get(data, "error") = ERR_TICKER)
        THEN Raise("ValueError", "'ticker' was incorrectly formatted.")
    ELSE IF (Get(data, "status") = "ERROR" /\ Get(data, "error") = ERR_RATE)
        THEN Raise("RequestException", MSG_RATE)
    ELSE IF (Get(data, "status") = "NOT_FOUND" /\ ~Has(data, "message"))
        THEN Raise("KeyError", "message")
    ELSE IF (Get(data, "status") = "NOT_FOUND" /\ Get(data, "message") = MSG_NOT_FOUND)
        THEN Raise("ValueError", "Data not found for {ticker} on {date}. Perhaps currency pair is incorrect/unavailable or the market was not open on 'date'.")
    ELSE IF Get(data, "status") # "OK" THEN unknown_status(data)
    ELSE Return(data)

\* crypto_get_grouped_daily_classify without the comparison of data["message"]:
\* every NOT_AUTHORIZED body is taken for the entitlement error
crypto_get_grouped_daily_classify_any_message(data, a) ==
    IF ~Readable(data, "status") THEN ReadError(data, "status")
    ELSE IF Get(data, "status") = "ERROR" /\ ~Has(data, "error") THEN Raise("KeyError", "error")
    ELSE IF (Get(data, "status") = "ERROR" /\ Get(data, "error") = ERR_DATE_INVALID(a.date))
        THEN Raise("ValueError", "'date' should be of format 'YYYY-MM-DD'.")
    ELSE IF (Get(data, "status") = "ERROR" /\ Get(data, "error") = ERR_RATE)
        THEN Raise("RequestException", MSG_RATE)
    ELSE IF Get(data, "status") = "DELAYED"
        THEN Raise("ValueError", "'date' is not supported yet. Perhaps 'date' is in the future.")
    ELSE IF Get(data, "status") = "NOT_AUTHORIZED"
        THEN Raise("RequestException", "Unable to request data past historical entitlements. Perhaps use a premium API key.")
    ELSE IF Get(data, "status") # "OK" THEN unknown_status(data)
    ELSE Return(data)

crypto_get_grouped_daily_classify(data, a) ==
    IF ~Readable(data, "status") THEN ReadError(data, "status")
    ELSE IF Get(data, "status") = "ERROR" /\ ~Has(data, "error") THEN Raise("KeyError", "error")
    ELSE IF (Get(data, "status") = "ERROR" /\ Get(data, "error") = ERR_DATE_INVALID(a.date))
        THEN Raise("ValueError", "'date' should be of format 'YYYY-MM-DD'.")
    ELSE IF (Get(data, "status") = "ERROR" /\ Get(data, "error") = ERR_RATE)
        THEN Raise("RequestException", MSG_RATE)
    ELSE IF Get(data, "status") = "DELAYED"
        THEN Raise("ValueError", "'date' is not supported yet. Perhaps 'date' is in the future.")
    ELSE IF (Get(data, "status") = "NOT_AUTHORIZED" /\ ~Has(data, "message"))
        THEN Raise("KeyError", "message")
    ELSE IF (Get(data, "status") = "NOT_AUTHORIZED" /\ Get(data, "message") = MSG_ENTITLEMENT)
        THEN Raise("RequestException", "Unable to request data past historical entitlements. Perhaps use a premium API key.")
    ELSE IF Get(data, "status") # "OK" THEN unknown_status(data)
    ELSE Return(data)

\* crypto_get_previous_close_classify with the unknown-status block before the
\* comparison of data["error"]
crypto_get_previous_close_classify_status_first(data, a) ==
    IF ~Readable(data, "status") THEN ReadError(data, "status")
    ELSE IF Get(data, "status") # "OK" THEN unknown_status(data)
    ELSE IF ~Has(data, "resultsCount") THEN Raise("KeyError", "resultsCount")
    ELSE IF Get(data, "resultsCount") = 0
        THEN Raise("ValueError", "Data not found for {ticker}. Perhaps currency pair is incorrect/unavailable.")
    ELSE Return(data)

crypto_get_previous_close_classify(data, a) ==
    IF ~Readable(data, "status") THEN ReadError(data, "status")
    ELSE IF Get(data, "status") = "ERROR" /\ ~Has(data, "error") THEN Raise("KeyError", "error")
    ELSE IF (Get(data, "status") = "ERROR" /\ Get(data, "error") = ERR_TICKER)
        THEN Raise("ValueError", "'ticker' was incorrectly formatted.")
    ELSE IF Get(data, "status") # "OK" THEN unknown_status(data)
    ELSE IF ~Has(data, "resultsCount") THEN Raise("KeyError", "resultsCount")
    ELSE IF Get(data, "resultsCount") = 0
        THEN Raise("ValueError", "Data not found for {ticker}. Perhaps currency pair is incorrect/unavailable.")
    ELSE Return(data)

options_get_aggregates_classify(data, a) ==
    IF ~Readable(data, "status") THEN ReadError(data, "status")
    ELSE IF Get(data, "status") = "ERROR" /\ ~Has(data, "error") THEN Raise("KeyError", "error")
    ELSE IF (Get(data, "status") = "ERROR" /\ Get(data, "error") = ERR_TO_BEFORE_FROM)
        THEN Raise("ValueError", "'to' should be a date that occurs after 'from_'.")
    ELSE IF (Get(data, "status") = "ERROR" /\ Get(data, "error") = ERR_PARSE_TO)
        THEN Raise("ValueError", "'to' should be of format 'YYYY-MM-DD'.")
    ELSE IF (Get(data, "status") = "ERROR" /\ Get(data, "error") = ERR_PARSE_FROM)
        THEN Raise("ValueError", "'from_' should be of format 'YYYY-MM-DD'.")
    ELSE IF Get(data, "status") # "OK" THEN unknown_status(data)
    ELSE IF ~Has(data, "resultsCount") THEN Raise("KeyError", "resultsCount")
    ELSE IF Get(data, "resultsCount") = 0
        THEN Raise("ValueError", "Data not found for {ticker} from {from_} to {to} within {limit} {timespan} query limit. Perhaps specified option is incorrect, the market was not open in that date range, or 'limit' is too small.")
    ELSE Return(data)

options_get_daily_open_close_classify(data, a) ==
    IF ~Readable(data, "status") THEN ReadError(data, "status")
    ELSE IF Get(data, "status") = "ERROR" /\ ~Has(data, "error") THEN Raise("KeyError", "error")
    ELSE IF (Get(data, "status") = "ERROR" /\ Get(data, "error") = ERR_TODAY)
        THEN Raise("ValueError", "'date' is not supported yet. Perhaps 'date' is in the future.")
    ELSE IF (Get(data, "status") = "ERROR" /\ Get(data, "error") = ERR_PARSE_DATE)
        THEN Raise("ValueError", "'date' should be of format 'YYYY-MM-DD'.")
    ELSE IF (Get(data, "status") = "ERROR" /\ Get(data, "error") = ERR_TICKER)
        THEN Raise("ValueError", "'ticker' was incorrectly formatted.")
    ELSE IF (Get(data, "status") = "ERROR" /\ Get(data, "error") = ERR_RATE)
        THEN Raise("RequestException", MSG_RATE)
    ELSE IF (Get(data, "status") = "NOT_FOUND" /\ ~Has(data, "message"))
        THEN Raise("KeyError", "message")
    ELSE IF (Get(data, "status") = "NOT_FOUND" /\ Get(data, "message") = MSG_NOT_FOUND)
        THEN Raise("ValueError", "Data not found for {ticker} on {date}. Perhaps 'ticker' is incorrect or the market was not open on 'date'.")
    ELSE IF Get(data, "status") # "OK" THEN unknown_status(data)
    ELSE Return(data)

options_get_previous_close_classify(data, a) ==
    IF ~Readable(data, "status") THEN ReadError(data, "status")
    ELSE IF Get(data, "status") = "ERROR" /\ ~Has(data, "error") THEN Raise("KeyError", "error")
    ELSE IF (Get(data, "status") = "ERROR" /\ Get(data, "error") = ERR_TICKER)
        THEN Raise("ValueError", "'ticker' was incorrectly formatted.")
    ELSE IF Get(data, "status") # "OK" THEN unknown_status(data)
    ELSE IF ~Has(data, "resultsCount") THEN Raise("KeyError", "resultsCount")
    ELSE IF Get(data, "resultsCount") = 0
        THEN Raise("ValueError", "Data not found for {ticker}. Perhaps 'ticker' is incorrect.")
    ELSE Return(data)

----------------------------------------------------------------------------
(* polygon_client: the request URL, as its path template and the values    *)
(* interpolated into it                                                    *)

NoEndpoint == [path |-> ""]

crypto_get_aggregates_endpoint(a, key) ==
    [path |-> "https://api.polygon.io/v2/aggs/ticker/{ticker}/range/{multiplier}/{timespan}/{from_}/{to}",
     ticker |-> crypto_ticker(a), multiplier |-> a.multiplier, timespan |-> a.timespan,
     from_ |-> a.from_, to |-> a.to, adjusted |-> StrOfBool(a.adjusted),
     sort |-> SortToken(a.ascending), limit |-> a.limit, apiKey |-> key]

crypto_get_daily_open_close_endpoint(a, key) ==
    [path |-> "https://api.polygon.io/v1/open-close/crypto/{currency_to}/{currency_from}/{date}",
     currency_to |-> a.currency_to, currency_from |-> a.currency_from, date |-> a.date,
     adjusted |-> StrOfBool(a.adjusted), apiKey |-> key]

crypto_get_grouped_daily_endpoint(a, key) ==
    [path |-> "https://api.polygon.io/v2/aggs/grouped/locale/global/market/crypto/{date}",
     date |-> a.date, adjusted |-> StrOfBool(a.adjusted), apiKey |-> key]

crypto_get_previous_close_endpoint(a, key) ==
    [path |-> "https://api.polygon.io/v2/aggs/ticker/{ticker}/prev",
     ticker |-> crypto_ticker(a), adjusted |-> StrOfBool(a.adjusted), apiKey |-> key]

options_get_aggregates_endpoint(a, key) ==
    [path |-> "https://api.polygon.io/v2/aggs/ticker/{ticker}/range/{multiplier}/{timespan}/{from_}/{to}",
     ticker |-> options_ticker(a), multiplier |-> a.multiplier, timespan |-> a.timespan,
     from_ |-> a.from_, to |-> a.to, adjusted |-> StrOfBool(a.adjusted),
     sort |-> SortToken(a.ascending), limit |-> a.limit, apiKey |-> key]

options_get_daily_open_close_endpoint(a, key) ==
    [path |-> "https://api.polygon.io/v1/open-close/{ticker}/{date}",
     ticker |-> options_ticker(a), date |-> a.date,
     adjusted |-> StrOfBool(a.adjusted), apiKey |-> key]

options_get_previous_close_endpoint(a, key) ==
    [path |-> "https://api.polygon.io/v2/aggs/ticker/{ticker}/prev",
     ticker |-> options_ticker(a), adjusted |-> StrOfBool(a.adjusted), apiKey |-> key]

----------------------------------------------------------------------------
(* polygon_client.stocks and polygon_client.forex.  The facades import them *)
(* but the two files are not among the sources, so the client functions of *)
(* these categories follow the specification: the per-field checks of its  *)
(* section 4.1 in the order of the parameters, the identifier of section   *)
(* 4.2, the URLs of section 6 and the outcomes of section 4.3.             *)

other_client_validate(a) ==
    IF "ticker" \in DOMAIN a /\ a.ticker = Empty THEN "'ticker' should be non-empty."
    ELSE IF "ticker" \in DOMAIN a /\ Contains(a.ticker, "/")
        THEN "'ticker' should not include '/'."
    ELSE IF "currency_to" \in DOMAIN a /\ a.currency_to = Empty
        THEN "'currency_to' should be non-empty."
    ELSE IF "currency_to" \in DOMAIN a /\ Contains(a.currency_to, "/")
        THEN "'currency_to' should not include '/'."
    ELSE IF "currency_from" \in DOMAIN a /\ a.currency_from = Empty
        THEN "'currency_from' should be non-empty."
    ELSE IF "currency_from" \in DOMAIN a /\ Contains(a.currency_from, "/")
        THEN "'currency_from' should not include '/'."
    ELSE IF "date" \in DOMAIN a /\ a.date = Empty THEN "'date' should be non-empty."
    ELSE IF "date" \in DOMAIN a /\ Contains(a.date, "/") THEN "'date' should not include '/'."
    ELSE IF "date" \in DOMAIN a /\ ~Contains(a.date, "-")
        THEN "'date' should be of format 'YYYY-MM-DD'."
    ELSE IF "from_" \in DOMAIN a /\ a.from_ = Empty THEN "'from_' date should be non-empty."
    ELSE IF "from_" \in DOMAIN a /\ Contains(a.from_, "/")
        THEN "'from_' date should not include '/'."
    ELSE IF "from_" \in DOMAIN a /\ ~Contains(a.from_, "-")
        THEN "'from_' date should be of format 'YYYY-MM-DD'."
    ELSE IF "to" \in DOMAIN a /\ a.to = Empty THEN "'to' date should be non-empty."
    ELSE IF "to" \in DOMAIN a /\ Contains(a.to, "/") THEN "'to' date should not include '/'."
    ELSE IF "to" \in DOMAIN a /\ ~Contains(a.to, "-")
        THEN "'to' date should be of format 'YYYY-MM-DD'."
    ELSE IF "multiplier" \in DOMAIN a /\ a.multiplier < MinMultiplier
        THEN "Timespan 'multiplier' should be at least 1."
    ELSE IF "timespan" \in DOMAIN a /\ a.timespan \notin possible_timespans
        THEN "'timespan' should be 'minute', 'hour', 'day', 'week', 'month', 'quarter', or 'year'."
    ELSE IF "limit" \in DOMAIN a /\ a.limit < MinLimit THEN "'limit' should be at least 1."
    ELSE IF "limit" \in DOMAIN a /\ a.limit > MaxLimit
        THEN "'limit' should be no more than 50000."
    ELSE NoError

\* a stock is queried by its ticker, a currency pair by the category marker
\* (C: for forex), the "to" code and the "from" code; grouped daily has no identifier
other_client_ticker(a) ==
    IF "ticker" \in DOMAIN a THEN a.ticker
    ELSE IF "currency_to" \in DOMAIN a THEN <<"C", ":">> \o a.currency_to \o a.currency_from
    ELSE <<>>

other_client_endpoint(op, a, key) ==
    [path |-> CASE op \in {"stocks.get_aggregates", "forex.get_aggregates"} ->
                     "/v2/aggs/ticker/{id}/range/{multiplier}/{timespan}/{from}/{to}?adjusted={bool}&sort={asc|desc}&limit={n}&apiKey={key}"
                [] op \in {"stocks.get_grouped_daily", "forex.get_grouped_daily"} ->
                     "/v2/aggs/grouped/locale/{locale}/market/{market}/{date}?adjusted={bool}&apiKey={key}"
                [] op \in {"stocks.get_previous_close", "forex.get_previous_close"} ->
                     "/v2/aggs/ticker/{id}/prev?adjusted={bool}&apiKey={key}",
     ticker |-> other_client_ticker(a), args |-> a, apiKey |-> key]

\* one of: domain error (rate limit, entitlement, not found), unexpected
\* status, empty result, success
other_client_classify(data) ==
    IF ~Readable(data, "status") THEN Raise("Exception", MSG_UNKNOWN)
    ELSE IF (Get(data, "status") = "ERROR" /\ Has(data, "error")
             /\ Get(data, "error") = ERR_RATE)
        THEN Raise("RequestException", MSG_RATE)
    ELSE IF (Get(data, "status") = "NOT_AUTHORIZED" /\ Has(data, "message")
             /\ Get(data, "message") = MSG_ENTITLEMENT)
        THEN Raise("RequestException", "Unable to request data past historical entitlements. Perhaps use a premium API key.")
    ELSE IF (Get(data, "status") = "NOT_FOUND" /\ Has(data, "message")
             /\ Get(data, "message") = MSG_NOT_FOUND)
        THEN Raise("ValueError", "Data not found.")
    ELSE IF Get(data, "status") # "OK" THEN unknown_status(data)
    ELSE IF ~Has(data, "resultsCount") \/ Get(data, "resultsCount") = 0
        THEN Raise("ValueError", "Data not found.")
    ELSE Return(data)

----------------------------------------------------------------------------
(* graphql_wrapper: enums and the records built from upstream results.     *)
(* An upstream result is a record of the keys T, c, h, l, n, o, t, v, vw,  *)
(* each <<>> when absent and <<v>> when present.                           *)

\* structs.Timespan
TimespanValue(name) ==
    CASE name = "MINUTE" -> "minute" [] name = "HOUR" -> "hour" [] name = "DAY" -> "day"
      [] name = "WEEK" -> "week" [] name = "MONTH" -> "month"
      [] name = "QUARTER" -> "quarter" [] name = "YEAR" -> "year"

\* structs.Sort
SortValue(name) == name = "ASCENDING"

\* The JSON integer giga * 10^9 + rest of a key "t", 0 <= rest < 10^9: a count
\* of milliseconds since the epoch.  Whole seconds are written as the pair
\* [mega, units] for mega * 10^6 + units, 0 <= units < 10^6.
EpochMs(giga, rest) == [giga |-> giga, rest |-> rest]

\* 2^e seconds as a pair, 0 <= e <= 37
PairPow2(e) ==
    LET c == IF e > 30 THEN Pow2(e - 30) ELSE 1
        b == Pow2(IF e > 30 THEN 30 ELSE e)
    IN  [mega |-> (b \div 1000000) * c + ((b % 1000000) * c) \div 1000000,
         units |-> ((b % 1000000) * c) % 1000000]

\* the binary exponent of the double holding s seconds, s below 2^38 (the
\* year 9999 ends before 2^38 seconds); 0 for s < 2
Binade(s) ==
    LET below == {e \in 0..37 : \/ PairPow2(e).mega < s.mega
                                \/ PairPow2(e).mega = s.mega /\ PairPow2(e).units <= s.units}
    IN  IF below = {} THEN 0 ELSE CHOOSE e \in below : \A d \in below : d <= e

\* n / d rounded to the nearest integer, a tie to the even one
RoundHalfEven(n, d) ==
    LET q == n \div d
        r == n % d
    IN  IF 2 * r > d \/ (2 * r = d /\ q % 2 = 1) THEN q + 1 ELSE q

\* datetime.utcfromtimestamp(t / 1000) for t below the year 10000.  t / 1000
\* is the double nearest to the quotient: with e the binary exponent of the
\* whole seconds, its fraction is a multiple k of 2^-f, f = 52 - e, nearest
\* to ms/1000.  utcfromtimestamp splits the double with modf and rounds
\* fraction * 10^6 half-even to microseconds; that product is exact.  Below
\* 2^29 seconds f is taken as 23: the quotient is then within 2^-24 s of
\* ms/1000 on either grid, and the nearest microsecond is the same.
UtcFromTimestamp(t) ==
    LET s == [mega |-> t.giga, units |-> t.rest \div Thousand]
        ms == t.rest % Thousand
        e == Binade(s)
        f == IF e < 29 THEN 23 ELSE 52 - e
        k == RoundHalfEven(ms * Pow2(f - 3), 125)
        a == k \div Pow2(f - 6)
        b == k % Pow2(f - 6)
    IN  [seconds |-> s, microsecond |-> a * 15625 + RoundHalfEven(b * 15625, Pow2(f - 6))]

\* the first key of ks that result lacks, or "" when it has them all
RECURSIVE FirstMissing(_, _)
FirstMissing(result, ks) ==
    IF ks = <<>> THEN ""
    ELSE IF ~Has(result, Head(ks)) THEN Head(ks)
    ELSE FirstMissing(result, Tail(ks))

\* the keyword arguments read with result[...], in evaluation order
BarKeys == <<"c", "h", "l", "o", "t", "v">>
TickerBarKeys == <<"T", "c", "h", "l", "o", "t", "v">>

\* AggregatesBar with `result.get("n") or -1` for `result["n"] if "n" in result else -1`
AggregatesBar_or_sentinel(result) ==
    [close |-> Get(result, "c"), high |-> Get(result, "h"), low |-> Get(result, "l"),
     transactions |-> IF Has(result, "n") /\ Get(result, "n") # 0 THEN Get(result, "n") ELSE -1,
     open |-> Get(result, "o"), time |-> UtcFromTimestamp(Get(result, "t")),
     volume |-> Get(result, "v"),
     vw_price |-> IF Has(result, "vw") /\ Get(result, "vw") # 0 THEN Get(result, "vw") ELSE -1]

\* structs.AggregatesBar(...) of one result
AggregatesBar(result) ==
    [close |-> Get(result, "c"), high |-> Get(result, "h"), low |-> Get(result, "l"),
     transactions |-> IF Has(result, "n") THEN Get(result, "n") ELSE -1,
     open |-> Get(result, "o"), time |-> UtcFromTimestamp(Get(result, "t")),
     volume |-> Get(result, "v"),
     vw_price |-> IF Has(result, "vw") THEN Get(result, "vw") ELSE -1]

\* CryptoGroupedDailyBar with result["T"][2:] whatever the first two characters
CryptoGroupedDailyBar_always_stripped(result) ==
    [ticker |-> Drop(Get(result, "T"), PrefixLen),
     close |-> Get(result, "c"), high |-> Get(result, "h"), low |-> Get(result, "l"),
     transactions |-> IF Has(result, "n") THEN Get(result, "n") ELSE -1,
     open |-> Get(result, "o"), time |-> UtcFromTimestamp(Get(result, "t")),
     volume |-> Get(result, "v"),
     vw_price |-> IF Has(result, "vw") THEN Get(result, "vw") ELSE -1]

\* structs.GroupedDailyBar(...) of one result of the crypto market
CryptoGroupedDailyBar(result) ==
    [ticker |-> IF Take(Get(result, "T"), PrefixLen) = <<"X", ":">>
                THEN Drop(Get(result, "T"), PrefixLen) ELSE Get(result, "T"),
     close |-> Get(result, "c"), high |-> Get(result, "h"), low |-> Get(result, "l"),
     transactions |-> IF Has(result, "n") THEN Get(result, "n") ELSE -1,
     open |-> Get(result, "o"), time |-> UtcFromTimestamp(Get(result, "t")),
     volume |-> Get(result, "v"),
     vw_price |-> IF Has(result, "vw") THEN Get(result, "vw") ELSE -1]

\* the keyword arguments of structs.PreviousClose(ticker=result["T"], ...) in the
\* crypto facade
CryptoPreviousCloseRecord(result) ==
    [ticker |-> Get(result, "T"),
     close |-> Get(result, "c"), high |-> Get(result, "h"), low |-> Get(result, "l"),
     transactions |-> IF Has(result, "n") THEN Get(result, "n") ELSE -1,
     open |-> Get(result, "o"), time |-> UtcFromTimestamp(Get(result, "t")),
     volume |-> Get(result, "v"),
     vw_price |-> IF Has(result, "vw") THEN Get(result, "vw") ELSE -1]

\* the indices of the results that lack one of the keys ks
Incomplete(results, ks) == {i \in 1..Len(results) : FirstMissing(results[i], ks) # ""}

\* the smallest element of a non-empty set of integers
Least(S) == CHOOSE i \in S : \A j \in S : i <= j

\* Crypto_aggregates_normalize with market.insert(0, ...) for market.append(...)
Crypto_aggregates_normalize_prepend(data) ==
    IF ~Has(data, "results") THEN Raise("KeyError", "results")
    ELSE LET results == Get(data, "results")
             bad == Incomplete(results, BarKeys)
         IN  IF bad # {} THEN Raise("KeyError", FirstMissing(results[Least(bad)], BarKeys))
             ELSE Return([i \in 1..Len(results) |->
                             AggregatesBar(results[Len(results) + 1 - i])])

\* Crypto_aggregates_normalize with the loop in a try block that returns the
\* bars built so far on KeyError
Crypto_aggregates_normalize_partial(data) ==
    IF ~Has(data, "results") THEN Raise("KeyError", "results")
    ELSE LET results == Get(data, "results")
             bad == Incomplete(results, BarKeys)
             n == IF bad # {} THEN Least(bad) - 1 ELSE Len(results)
         IN  Return([i \in 1..n |-> AggregatesBar(results[i])])

\* Crypto.aggregates after polygon_client.get_aggregates returned data
Crypto_aggregates_normalize(data) ==
    IF ~Has(data, "results") THEN Raise("KeyError", "results")
    ELSE LET results == Get(data, "results")
             bad == Incomplete(results, BarKeys)
         IN  IF bad # {} THEN Raise("KeyError", FirstMissing(results[Least(bad)], BarKeys))
             ELSE Return([i \in 1..Len(results) |-> AggregatesBar(results[i])])

\* Crypto.grouped_daily after polygon_client.get_grouped_daily returned data
Crypto_grouped_daily_normalize(data) ==
    IF ~Has(data, "results") THEN Raise("KeyError", "results")
    ELSE LET results == Get(data, "results")
             bad == Incomplete(results, TickerBarKeys)
         IN  IF bad # {} THEN Raise("KeyError", FirstMissing(results[Least(bad)], TickerBarKeys))
             ELSE Return([i \in 1..Len(results) |-> CryptoGroupedDailyBar(results[i])])

\* the fields class PreviousClose of structs declares: it has no ticker
PreviousCloseFields ==
    {"close", "high", "low", "transactions", "open", "time", "volume", "vw_price"}

\* structs.PreviousClose(**kwargs): a strawberry type is a dataclass, whose
\* constructor raises TypeError on a keyword that is no declared field
\* (and on a declared field that is not given)
PreviousClose(kwargs) ==
    IF DOMAIN kwargs = PreviousCloseFields THEN Return(kwargs)
    ELSE Raise("TypeError", "PreviousClose.__init__() got an unexpected keyword argument")

\* Crypto.previous_close after polygon_client.get_previous_close returned data
Crypto_previous_close_normalize(data) ==
    IF ~Has(data, "results") THEN Raise("KeyError", "results")
    ELSE LET results == Get(data, "results")
         IN  IF results = <<>> THEN Raise("IndexError", "results[0]")
             ELSE IF FirstMissing(results[1], TickerBarKeys) # ""
                 THEN Raise("KeyError", FirstMissing(results[1], TickerBarKeys))
             ELSE PreviousClose(CryptoPreviousCloseRecord(results[1]))

\* the keys of a trade read with trade[...], in evaluation order
TradeKeys == <<"c", "p", "s", "t", "x">>

\* structs.CryptoDailyOpenCloseTrade(...) of one trade
CryptoDailyOpenCloseTrade(trade) ==
    [conditions |-> Get(trade, "c"), price |-> Get(trade, "p"), volume |-> Get(trade, "s"),
     time |-> UtcFromTimestamp(Get(trade, "t")), exchange_id |-> Get(trade, "x")]

\* Crypto.daily_open_close after print(data): the closing trades, then the
\* opening trades, then structs.CryptoDailyOpenClose(close=..., open=...)
Crypto_daily_open_close_normalize(data) ==
    IF data.type # "object" THEN Raise("TypeError", "closingTrades")
    ELSE IF ~Has(data, "closingTrades") THEN Raise("KeyError", "closingTrades")
    ELSE IF Incomplete(Get(data, "closingTrades"), TradeKeys) # {}
        THEN LET trades == Get(data, "closingTrades")
             IN  Raise("KeyError",
                       FirstMissing(trades[Least(Incomplete(trades, TradeKeys))], TradeKeys))
    ELSE IF ~Has(data, "openTrades") THEN Raise("KeyError", "openTrades")
    ELSE IF Incomplete(Get(data, "openTrades"), TradeKeys) # {}
        THEN LET trades == Get(data, "openTrades")
             IN  Raise("KeyError",
                       FirstMissing(trades[Least(Incomplete(trades, TradeKeys))], TradeKeys))
    ELSE IF ~Has(data, "close") THEN Raise("KeyError", "close")
    ELSE IF ~Has(data, "open") THEN Raise("KeyError", "open")
    ELSE LET closing == Get(data, "closingTrades")
             opening == Get(data, "openTrades")
         IN  Return([close |-> Get(data, "close"),
                     closing_trades |->
                         [i \in 1..Len(closing) |-> CryptoDailyOpenCloseTrade(closing[i])],
                     open |-> Get(data, "open"),
                     opening_trades |->
                         [i \in 1..Len(opening) |-> CryptoDailyOpenCloseTrade(opening[i])]])

\* what the facade field writes to standard output once the client function
\* returned data: Crypto.daily_open_close has print(data), no other field
\* has a print or logging statement
Printed(entry, data) == IF entry = "Crypto.daily_open_close" THEN <<data>> ELSE <<>>

\* PayloadAfter with results.pop(0) for results[0] in the previous_close fields
PayloadAfter_first_popped(entry, data) ==
    IF /\ entry \in {"Crypto.previous_close", "Options.previous_close",
                     "Forex.previous_close", "Stocks.previous_close"}
       /\ Has(data, "results") /\ Get(data, "results") # <<>>
    THEN [data EXCEPT !.results = <<Tail(Get(data, "results"))>>]
    ELSE data

\* data once the facade field has run: the fields subscript data and the
\* elements of data["results"] and assign to none of them
PayloadAfter(entry, data) == data

(* The facades of the other categories.  Options, Forex and Stocks build    *)
(* their bars with the same statements as Crypto, each in its own file.     *)

\* structs.OptionsType
OptionsTypeValue(name) == name = "CALL"

\* structs.GroupedDailyBar(...) of one result of the forex market
ForexGroupedDailyBar(result) ==
    [ticker |-> IF Take(Get(result, "T"), PrefixLen) = <<"C", ":">>
                THEN Drop(Get(result, "T"), PrefixLen) ELSE Get(result, "T"),
     close |-> Get(result, "c"), high |-> Get(result, "h"), low |-> Get(result, "l"),
     transactions |-> IF Has(result, "n") THEN Get(result, "n") ELSE -1,
     open |-> Get(result, "o"), time |-> UtcFromTimestamp(Get(result, "t")),
     volume |-> Get(result, "v"),
     vw_price |-> IF Has(result, "vw") THEN Get(result, "vw") ELSE -1]

\* GroupedDailyBar(...) of one result of the stock market
StocksGroupedDailyBar(result) ==
    [ticker |-> Get(result, "T"),
     close |-> Get(result, "c"), high |-> Get(result, "h"), low |-> Get(result, "l"),
     transactions |-> IF Has(result, "n") THEN Get(result, "n") ELSE -1,
     open |-> Get(result, "o"), time |-> UtcFromTimestamp(Get(result, "t")),
     volume |-> Get(result, "v"),
     vw_price |-> IF Has(result, "vw") THEN Get(result, "vw") ELSE -1]

\* the keyword arguments of PreviousClose(...) in the options, forex and stocks facades
PreviousCloseRecord(result) ==
    [close |-> Get(result, "c"), high |-> Get(result, "h"), low |-> Get(result, "l"),
     transactions |-> IF Has(result, "n") THEN Get(result, "n") ELSE -1,
     open |-> Get(result, "o"), time |-> UtcFromTimestamp(Get(result, "t")),
     volume |-> Get(result, "v"),
     vw_price |-> IF Has(result, "vw") THEN Get(result, "vw") ELSE -1]

\* results = data["results"]; for result in results: market.append(...); return market
\* as the field named entry builds its records
market(data, entry) ==
    LET ks == IF entry \in {"Forex.grouped_daily", "Stocks.grouped_daily"}
              THEN TickerBarKeys ELSE BarKeys
        Bar(result) ==
            CASE entry = "Forex.grouped_daily" -> ForexGroupedDailyBar(result)
              [] entry = "Stocks.grouped_daily" -> StocksGroupedDailyBar(result)
              [] OTHER -> AggregatesBar(result)
    IN  IF ~Has(data, "results") THEN Raise("KeyError", "results")
        ELSE LET results == Get(data, "results")
                 bad == Incomplete(results, ks)
             IN  IF bad # {} THEN Raise("KeyError", FirstMissing(results[Least(bad)], ks))
                 ELSE Return([i \in 1..Len(results) |-> Bar(results[i])])

\* results = data["results"]; result = results[0]; return PreviousClose(...)
previous_close(data) ==
    IF ~Has(data, "results") THEN Raise("KeyError", "results")
    ELSE LET results == Get(data, "results")
         IN  IF results = <<>> THEN Raise("IndexError", "results[0]")
             ELSE IF FirstMissing(results[1], BarKeys) # ""
                 THEN Raise("KeyError", FirstMissing(results[1], BarKeys))
             ELSE PreviousClose(PreviousCloseRecord(results[1]))

----------------------------------------------------------------------------
(* The calls made: each operation's default call, and the calls that       *)
(* differ from it in a bounded number of parameters                        *)

Vary(d, f, S) == {[d EXCEPT ![f] = v] : v \in S}

crypto_get_aggregates_default ==
    [currency_to |-> USD, currency_from |-> BTC, multiplier |-> 1, timespan |-> "day",
     from_ |-> Date0101, to |-> Date0105, adjusted |-> TRUE, ascending |-> TRUE,
     limit |-> 5000]
crypto_get_daily_open_close_default ==
    [currency_to |-> USD, currency_from |-> BTC, date |-> Date0105, adjusted |-> TRUE]
crypto_get_grouped_daily_default == [date |-> Date0105, adjusted |-> TRUE]
crypto_get_previous_close_default ==
    [currency_to |-> USD, currency_from |-> BTC, adjusted |-> TRUE]
options_get_aggregates_default ==
    [ticker |-> AAPL, expiration |-> Exp0621, call |-> TRUE, strike |-> Finite(150500),
     multiplier |-> 1, timespan |-> "day", from_ |-> Date0101, to |-> Date0105,
     adjusted |-> TRUE, ascending |-> TRUE, limit |-> 5000]
options_get_daily_open_close_default ==
    [ticker |-> AAPL, expiration |-> Exp0621, call |-> TRUE, strike |-> Finite(150500),
     date |-> Date0105, adjusted |-> TRUE]
options_get_previous_close_default ==
    [ticker |-> AAPL, expiration |-> Exp0621, call |-> TRUE, strike |-> Finite(150500),
     adjusted |-> TRUE]
Crypto_aggregates_default ==
    [currency_to |-> USD, currency_from |-> BTC, timespan |-> "DAY", from_ |-> Date0101,
     to |-> Date0105, multiplier |-> 1, adjusted |-> TRUE, sort |-> "ASCENDING",
     limit |-> 5000]

Options_aggregates_default ==
    [ticker |-> AAPL, expiration |-> Exp0621, type |-> "CALL", strike |-> Finite(150500),
     timespan |-> "DAY", from_ |-> Date0101, to |-> Date0105, multiplier |-> 1,
     adjusted |-> TRUE, sort |-> "ASCENDING", limit |-> 5000]
Options_previous_close_default ==
    [ticker |-> AAPL, expiration |-> Exp0621, type |-> "CALL", strike |-> Finite(150500),
     adjusted |-> TRUE]
Forex_aggregates_default ==
    [currency_to |-> USD, currency_from |-> BTC, timespan |-> "DAY", from_ |-> Date0101,
     to |-> Date0105, multiplier |-> 1, adjusted |-> TRUE, sort |-> "ASCENDING",
     limit |-> 5000]
Forex_previous_close_default == [currency_to |-> USD, currency_from |-> BTC, adjusted |-> TRUE]
Stocks_aggregates_default ==
    [ticker |-> AAPL, timespan |-> "DAY", from_ |-> Date0101, to |-> Date0105,
     multiplier |-> 1, adjusted |-> TRUE, sort |-> "ASCENDING", limit |-> 5000]
Stocks_previous_close_default == [ticker |-> AAPL, adjusted |-> TRUE]
grouped_daily_default == [date |-> Date0105, adjusted |-> TRUE]

TimespanNames == {"DAY", "YEAR"}
SortNames == {"ASCENDING", "DESCENDING"}

\* the calls that differ from d in at most one parameter
OneOverride(op, d) ==
    CASE op = "crypto.get_aggregates" ->
           Vary(d, "currency_to", CurrencyCodes) \cup Vary(d, "currency_from", CurrencyCodes)
           \cup Vary(d, "multiplier", Multipliers) \cup Vary(d, "timespan", Timespans)
           \cup Vary(d, "from_", Dates) \cup Vary(d, "to", Dates)
           \cup Vary(d, "adjusted", BOOLEAN) \cup Vary(d, "ascending", BOOLEAN)
           \cup Vary(d, "limit", Limits)
      [] op = "crypto.get_daily_open_close" ->
           Vary(d, "currency_to", CurrencyCodes) \cup Vary(d, "currency_from", CurrencyCodes)
           \cup Vary(d, "date", Dates) \cup Vary(d, "adjusted", BOOLEAN)
      [] op = "crypto.get_grouped_daily" ->
           Vary(d, "date", Dates) \cup Vary(d, "adjusted", BOOLEAN)
      [] op = "crypto.get_previous_close" ->
           Vary(d, "currency_to", CurrencyCodes) \cup Vary(d, "currency_from", CurrencyCodes)
           \cup Vary(d, "adjusted", BOOLEAN)
      [] op = "options.get_aggregates" ->
           Vary(d, "ticker", Tickers) \cup Vary(d, "expiration", Expirations)
           \cup Vary(d, "call", BOOLEAN) \cup Vary(d, "strike", Strikes)
           \cup Vary(d, "multiplier", Multipliers) \cup Vary(d, "timespan", Timespans)
           \cup Vary(d, "from_", Dates) \cup Vary(d, "to", Dates)
           \cup Vary(d, "adjusted", BOOLEAN) \cup Vary(d, "ascending", BOOLEAN)
           \cup Vary(d, "limit", Limits)
      [] op = "options.get_daily_open_close" ->
           Vary(d, "ticker", Tickers) \cup Vary(d, "expiration", Expirations)
           \cup Vary(d, "call", BOOLEAN) \cup Vary(d, "strike", Strikes)
           \cup Vary(d, "date", Dates) \cup Vary(d, "adjusted", BOOLEAN)
      [] op = "options.get_previous_close" ->
           Vary(d, "ticker", Tickers) \cup Vary(d, "expiration", Expirations)
           \cup Vary(d, "call", BOOLEAN) \cup Vary(d, "strike", Strikes)
           \cup Vary(d, "adjusted", BOOLEAN)
      [] op = "Crypto.aggregates" ->
           Vary(d, "currency_to", CurrencyCodes) \cup Vary(d, "currency_from", CurrencyCodes)
           \cup Vary(d, "multiplier", Multipliers) \cup Vary(d, "timespan", TimespanNames)
           \cup Vary(d, "from_", Dates) \cup Vary(d, "to", Dates)
           \cup Vary(d, "adjusted", BOOLEAN) \cup Vary(d, "sort", SortNames)
           \cup Vary(d, "limit", Limits)

\* the calls that differ from d in at most n parameters
RECURSIVE Variants(_, _, _)
Variants(op, d, n) ==
    IF n = 0 THEN {d} ELSE UNION {OneOverride(op, x) : x \in Variants(op, d, n - 1)}

----------------------------------------------------------------------------
(* What the upstream can answer *)

Opt(S) == {<<>>} \cup {<<v>> : v \in S}

Body(st, er, ms, rc, rs) ==
    [type |-> "object", status |-> st, error |-> er, message |-> ms,
     resultsCount |-> rc, results |-> rs,
     open |-> <<>>, close |-> <<>>, openTrades |-> <<>>, closingTrades |-> <<>>]

\* the body of the crypto daily open/close endpoint
OpenCloseBody(st, o, c, ot, ct) ==
    [Body(st, <<>>, <<>>, <<>>, <<>>) EXCEPT
        !.open = o, !.close = c, !.openTrades = ot, !.closingTrades = ct]

\* a JSON value that is no object: [] , a string without "status", a number, null
NonObject(t) ==
    [type |-> t, status |-> <<>>, error |-> <<>>, message |-> <<>>,
     resultsCount |-> <<>>, results |-> <<>>,
     open |-> <<>>, close |-> <<>>, openTrades |-> <<>>, closingTrades |-> <<>>]

XBTCUSD == <<"X", ":", "B", "T", "C", "U", "S", "D">>

ResultFull ==
    [T |-> <<XBTCUSD>>, c |-> <<3>>, h |-> <<4>>, l |-> <<1>>, n |-> <<7>>, o |-> <<2>>,
     t |-> <<EpochMs(0, 1500)>>, v |-> <<10>>, vw |-> <<2>>]
ResultSparse ==
    [T |-> <<AAPL>>, c |-> <<3>>, h |-> <<4>>, l |-> <<1>>, n |-> <<>>, o |-> <<2>>,
     t |-> <<EpochMs(0, 999)>>, v |-> <<0>>, vw |-> <<>>]
ResultSamples == {ResultFull, ResultSparse}
ResultLists == UNION {[1..n -> ResultSamples] : n \in 0..MaxResults}

Statuses == {"OK", "ERROR", "NOT_FOUND", "NOT_AUTHORIZED", "DELAYED", "TIMEOUT"}
Errors == {ERR_TO_BEFORE_FROM, ERR_PARSE_TO, ERR_PARSE_FROM, ERR_TODAY, ERR_PARSE_DATE,
           ERR_TICKER, ERR_RATE, ERR_DATE_INVALID(Date0105), ERR_DATE_INVALID(Date0101),
           Txt("ticker was incorrectly formatted"), Txt("Internal error")}
Messages == {MSG_NOT_FOUND, MSG_ENTITLEMENT, Txt("Data not found")}

TransportError == [kind |-> "transport_error", data |-> NonObject("none")]
NonJson == [kind |-> "non_json", data |-> NonObject("none")]
Json(data) == [kind |-> "json", data |-> data]
NoResponse == [kind |-> "none", data |-> NonObject("none")]

AllBodies ==
    {Body(st, er, ms, rc, rs) : st \in Opt(Statuses), er \in Opt(Errors),
        ms \in Opt(Messages), rc \in Opt(0..MaxResultsCount), rs \in Opt(ResultLists)}
NonObjects == {NonObject(t) : t \in {"array", "string", "number", "null"}}

AllResponses == {TransportError, NonJson} \cup {Json(d) : d \in AllBodies \cup NonObjects}

\* upstream results for the facades: a ticker of each category, n and vw
\* present, absent and 0, a required key missing
CEURUSD == <<"C", ":", "E", "U", "R", "U", "S", "D">>
ResultZero ==
    [T |-> <<CEURUSD>>, c |-> <<5>>, h |-> <<6>>, l |-> <<5>>, n |-> <<0>>, o |-> <<6>>,
     t |-> <<EpochMs(0, 2000)>>, v |-> <<1>>, vw |-> <<0>>]
ResultNoClose ==
    [T |-> <<XBTCUSD>>, c |-> <<>>, h |-> <<8>>, l |-> <<7>>, n |-> <<1>>, o |-> <<7>>,
     t |-> <<EpochMs(0, 3001)>>, v |-> <<2>>, vw |-> <<7>>]
ResultNoVolume ==
    [T |-> <<AAPL>>, c |-> <<9>>, h |-> <<9>>, l |-> <<9>>, n |-> <<2>>, o |-> <<9>>,
     t |-> <<EpochMs(0, 4000)>>, v |-> <<>>, vw |-> <<9>>]
\* a bar of the year 2242, 2^33 seconds and one millisecond after the epoch
ResultLate ==
    [T |-> <<XBTCUSD>>, c |-> <<4>>, h |-> <<4>>, l |-> <<4>>, n |-> <<3>>, o |-> <<4>>,
     t |-> <<EpochMs(8589, 934592001)>>, v |-> <<5>>, vw |-> <<4>>]
BarSamples ==
    {ResultFull, ResultSparse, ResultZero, ResultNoClose, ResultNoVolume, ResultLate}
BarLists == UNION {[1..n -> BarSamples] : n \in 0..MaxBars}

\* status OK with any resultsCount and any results; one failure of each kind
BarResponses ==
    {Json(Body(<<"OK">>, <<>>, <<>>, rc, rs)) :
        rc \in Opt(0..MaxResultsCount), rs \in Opt(BarLists)}
    \cup {TransportError, NonJson, Json(Body(<<"ERROR">>, <<ERR_TICKER>>, <<>>, <<>>, <<>>))}

\* trades of the crypto daily open/close endpoint: one of 2023-11-14
\* 22:13:20 UTC, one of the year 2242, one without its time
Trade2023 ==
    [c |-> <<2>>, p |-> <<36000>>, s |-> <<1>>, t |-> <<EpochMs(1700, 0)>>, x |-> <<1>>]
Trade2242 ==
    [c |-> <<2>>, p |-> <<36001>>, s |-> <<2>>, t |-> <<EpochMs(8589, 934592001)>>,
     x |-> <<2>>]
TradeNoTime == [c |-> <<2>>, p |-> <<36002>>, s |-> <<3>>, t |-> <<>>, x |-> <<1>>]
TradeSamples == {Trade2023, Trade2242, TradeNoTime}
TradeLists == UNION {[1..n -> TradeSamples] : n \in 0..MaxTrades}
OpenCloseResponses ==
    {Json(OpenCloseBody(st, o, c, ot, ct)) :
        st \in Opt({"OK"}), o \in Opt({36000}), c \in Opt({36500}),
        ot \in Opt(TradeLists), ct \in Opt(TradeLists)}

\* the answers tried against every call
CoreResponses ==
    {TransportError, NonJson,
     Json(Body(<<"OK">>, <<>>, <<>>, <<1>>, <<<<ResultFull>>>>)),
     Json(Body(<<"OK">>, <<>>, <<>>, <<0>>, <<>>)),
     Json(Body(<<"ERROR">>, <<ERR_TICKER>>, <<>>, <<>>, <<>>)),
     Json(Body(<<>>, <<>>, <<>>, <<>>, <<>>))}

----------------------------------------------------------------------------
(* The state machine of one invocation.  A client function runs from its    *)
(* entry to requests.get in one step (or to the ValueError it raises), and *)
(* from the upstream's answer to its end in another.                       *)

NoCall == [entry |-> "none", fargs |-> <<>>, op |-> "none", args |-> <<>>]
NoTicker == <<>>

Invocations == 1..MaxInvocations
\* no invocation in progress in this slot
NoLocals ==
    [pc |-> "idle", call |-> NoCall, ticker |-> NoTicker, endpoint |-> NoEndpoint,
     response |-> NoResponse, outcome |-> NoOutcome]

Init ==
    /\ KEY = "6mK2FCpgpyFWpbGn4O2DiGuSMlcTGc48"
    /\ pc = "idle"
    /\ call = NoCall
    /\ ticker = NoTicker
    /\ endpoint = NoEndpoint
    /\ gets = 0
    /\ steps = <<>>
    /\ response = NoResponse
    /\ outcome = NoOutcome
    /\ inv = [i \in Invocations |-> NoLocals]
    /\ stdout = <<>>
    /\ payload = NoResponse.data

\* Begin with requests.get issued before the input validation
BeginGetFirst(entry, fargs, op, a, err, raises, tk, ep) ==
    /\ pc = "idle"
    /\ call' = [entry |-> entry, fargs |-> fargs, op |-> op, args |-> a]
    /\ response' = NoResponse
    /\ gets' = gets + 1
    /\ UNCHANGED <<KEY, inv, stdout, payload>>
    /\ IF err # NoError
       THEN /\ pc' = "done"
            /\ outcome' = Raise("ValueError", err)
            /\ steps' = <<"GET", "validate">>
            /\ UNCHANGED <<ticker, endpoint>>
       ELSE IF raises
       THEN /\ pc' = "done"
            /\ outcome' = Raise("ValueError", "cannot convert float NaN to integer")
            /\ steps' = <<"GET", "validate", "build">>
            /\ UNCHANGED <<ticker, endpoint>>
       ELSE /\ pc' = "awaiting"
            /\ outcome' = NoOutcome
            /\ ticker' = tk
            /\ endpoint' = ep
            /\ steps' = <<"GET", "validate", "build">>

\* entry is "client" for a direct call of polygon_client, else the facade field;
\* err is the result of the input validation, raises whether the input morphing
\* raises, tk and ep the identifier and URL it builds
Begin(entry, fargs, op, a, err, raises, tk, ep) ==
    /\ pc = "idle"
    /\ call' = [entry |-> entry, fargs |-> fargs, op |-> op, args |-> a]
    /\ response' = NoResponse
    /\ UNCHANGED <<KEY, inv, stdout, payload>>
    /\ IF err # NoError
       THEN /\ pc' = "done"
            /\ outcome' = Raise("ValueError", err)
            /\ steps' = <<"validate">>
            /\ UNCHANGED <<ticker, endpoint, gets>>
       ELSE IF raises
       THEN /\ pc' = "done"
            /\ outcome' = Raise("ValueError", "cannot convert float NaN to integer")
            /\ steps' = <<"validate", "build">>
            /\ UNCHANGED <<ticker, endpoint, gets>>
       ELSE /\ pc' = "awaiting"
            /\ outcome' = NoOutcome
            /\ ticker' = tk
            /\ endpoint' = ep
            /\ gets' = gets + 1
            /\ steps' = IF tk = NoTicker THEN <<"validate", "GET">>
                        ELSE <<"validate", "build", "GET">>

crypto_get_aggregates(entry, fargs, a) ==
    Begin(entry, fargs, "crypto.get_aggregates", a, crypto_get_aggregates_validate(a),
          FALSE, crypto_ticker(a), crypto_get_aggregates_endpoint(a, KEY))

crypto_get_daily_open_close(entry, fargs, a) ==
    Begin(entry, fargs, "crypto.get_daily_open_close", a,
          crypto_get_daily_open_close_validate(a),
          FALSE, crypto_ticker(a), crypto_get_daily_open_close_endpoint(a, KEY))

crypto_get_grouped_daily(entry, fargs, a) ==
    Begin(entry, fargs, "crypto.get_grouped_daily", a, crypto_get_grouped_daily_validate(a),
          FALSE, NoTicker, crypto_get_grouped_daily_endpoint(a, KEY))

crypto_get_previous_close(entry, fargs, a) ==
    Begin(entry, fargs, "crypto.get_previous_close", a,
          crypto_get_previous_close_validate(a),
          FALSE, crypto_ticker(a), crypto_get_previous_close_endpoint(a, KEY))

options_get_aggregates(entry, fargs, a) ==
    Begin(entry, fargs, "options.get_aggregates", a, options_get_aggregates_validate(a),
          options_strike_raises(a.strike), options_ticker(a),
          options_get_aggregates_endpoint(a, KEY))

options_get_daily_open_close(entry, fargs, a) ==
    Begin(entry, fargs, "options.get_daily_open_close", a,
          options_get_daily_open_close_validate(a),
          options_strike_raises(a.strike), options_ticker(a),
          options_get_daily_open_close_endpoint(a, KEY))

options_get_previous_close(entry, fargs, a) ==
    Begin(entry, fargs, "options.get_previous_close", a,
          options_get_previous_close_validate(a),
          options_strike_raises(a.strike), options_ticker(a),
          options_get_previous_close_endpoint(a, KEY))

\* Crypto.aggregates passes (currency_from, currency_to, multiplier, timespan.value, ...)
\* to get_aggregates(currency_to, currency_from, multiplier, timespan, ...)
Crypto_aggregates_args(f) ==
    [currency_to |-> f.currency_from, currency_from |-> f.currency_to,
     multiplier |-> f.multiplier, timespan |-> TimespanValue(f.timespan),
     from_ |-> f.from_, to |-> f.to, adjusted |-> f.adjusted,
     ascending |-> SortValue(f.sort), limit |-> f.limit]

Crypto_aggregates(f) ==
    Begin("Crypto.aggregates", f, "crypto.get_aggregates", Crypto_aggregates_args(f),
          crypto_get_aggregates_validate(Crypto_aggregates_args(f)), FALSE,
          crypto_ticker(Crypto_aggregates_args(f)),
          crypto_get_aggregates_endpoint(Crypto_aggregates_args(f), KEY))

Crypto_daily_open_close(f) ==
    Begin("Crypto.daily_open_close", f, "crypto.get_daily_open_close", f,
          crypto_get_daily_open_close_validate(f),
          FALSE, crypto_ticker(f), crypto_get_daily_open_close_endpoint(f, KEY))

Crypto_grouped_daily(f) ==
    Begin("Crypto.grouped_daily", f, "crypto.get_grouped_daily", f,
          crypto_get_grouped_daily_validate(f), FALSE, NoTicker,
          crypto_get_grouped_daily_endpoint(f, KEY))

Crypto_previous_close(f) ==
    Begin("Crypto.previous_close", f, "crypto.get_previous_close", f,
          crypto_get_previous_close_validate(f), FALSE, crypto_ticker(f),
          crypto_get_previous_close_endpoint(f, KEY))

\* Options.aggregates passes (ticker, expiration, type.value, strike, multiplier,
\* timespan.value, from_, to, adjusted=, ascending=sort.value, limit=)
Options_aggregates_args(f) ==
    [ticker |-> f.ticker, expiration |-> f.expiration, call |-> OptionsTypeValue(f.type),
     strike |-> f.strike, multiplier |-> f.multiplier, timespan |-> TimespanValue(f.timespan),
     from_ |-> f.from_, to |-> f.to, adjusted |-> f.adjusted,
     ascending |-> SortValue(f.sort), limit |-> f.limit]

Options_aggregates(f) ==
    Begin("Options.aggregates", f, "options.get_aggregates", Options_aggregates_args(f),
          options_get_aggregates_validate(Options_aggregates_args(f)),
          options_strike_raises(f.strike), options_ticker(Options_aggregates_args(f)),
          options_get_aggregates_endpoint(Options_aggregates_args(f), KEY))

Options_previous_close_args(f) ==
    [ticker |-> f.ticker, expiration |-> f.expiration, call |-> OptionsTypeValue(f.type),
     strike |-> f.strike, adjusted |-> f.adjusted]

Options_previous_close(f) ==
    Begin("Options.previous_close", f, "options.get_previous_close",
          Options_previous_close_args(f),
          options_get_previous_close_validate(Options_previous_close_args(f)),
          options_strike_raises(f.strike), options_ticker(Options_previous_close_args(f)),
          options_get_previous_close_endpoint(Options_previous_close_args(f), KEY))

\* Forex.aggregates and Stocks.aggregates pass timespan.value and ascending=sort.value
other_aggregates_args(f) ==
    [k \in (DOMAIN f \ {"sort"}) \cup {"ascending"} |->
        IF k = "ascending" THEN SortValue(f.sort)
        ELSE IF k = "timespan" THEN TimespanValue(f.timespan)
        ELSE f[k]]

Forex_aggregates(f) ==
    Begin("Forex.aggregates", f, "forex.get_aggregates", other_aggregates_args(f),
          other_client_validate(other_aggregates_args(f)), FALSE, other_client_ticker(other_aggregates_args(f)),
          other_client_endpoint("forex.get_aggregates", other_aggregates_args(f), KEY))

Forex_grouped_daily(f) ==
    Begin("Forex.grouped_daily", f, "forex.get_grouped_daily", f,
          other_client_validate(f), FALSE, other_client_ticker(f),
          other_client_endpoint("forex.get_grouped_daily", f, KEY))

Forex_previous_close(f) ==
    Begin("Forex.previous_close", f, "forex.get_previous_close", f,
          other_client_validate(f), FALSE, other_client_ticker(f),
          other_client_endpoint("forex.get_previous_close", f, KEY))

Stocks_aggregates(f) ==
    Begin("Stocks.aggregates", f, "stocks.get_aggregates", other_aggregates_args(f),
          other_client_validate(other_aggregates_args(f)), FALSE, other_client_ticker(other_aggregates_args(f)),
          other_client_endpoint("stocks.get_aggregates", other_aggregates_args(f), KEY))

Stocks_grouped_daily(f) ==
    Begin("Stocks.grouped_daily", f, "stocks.get_grouped_daily", f,
          other_client_validate(f), FALSE, other_client_ticker(f),
          other_client_endpoint("stocks.get_grouped_daily", f, KEY))

Stocks_previous_close(f) ==
    Begin("Stocks.previous_close", f, "stocks.get_previous_close", f,
          other_client_validate(f), FALSE, other_client_ticker(f),
          other_client_endpoint("stocks.get_previous_close", f, KEY))

\* the output validation of the client function that is waiting
Classify(op, data, a) ==
    CASE op = "crypto.get_aggregates" -> crypto_get_aggregates_classify(data, a)
      [] op = "crypto.get_daily_open_close" -> crypto_get_daily_open_close_classify(data, a)
      [] op = "crypto.get_grouped_daily" -> crypto_get_grouped_daily_classify(data, a)
      [] op = "crypto.get_previous_close" -> crypto_get_previous_close_classify(data, a)
      [] op = "options.get_aggregates" -> options_get_aggregates_classify(data, a)
      [] op = "options.get_daily_open_close" -> options_get_daily_open_close_classify(data, a)
      [] op = "options.get_previous_close" -> options_get_previous_close_classify(data, a)
      [] op \in {"forex.get_aggregates", "forex.get_grouped_daily",
                 "forex.get_previous_close", "stocks.get_aggregates",
                 "stocks.get_grouped_daily", "stocks.get_previous_close"} ->
           other_client_classify(data)

\* the rest of the facade field once the client function returned data
Normalize(entry, data) ==
    CASE entry = "Crypto.aggregates" -> Crypto_aggregates_normalize(data)
      [] entry = "Crypto.grouped_daily" -> Crypto_grouped_daily_normalize(data)
      [] entry = "Crypto.previous_close" -> Crypto_previous_close_normalize(data)
      [] entry = "Crypto.daily_open_close" -> Crypto_daily_open_close_normalize(data)
      [] entry \in {"Options.aggregates", "Forex.aggregates", "Stocks.aggregates"} ->
           market(data, entry)
      [] entry = "Forex.grouped_daily" -> market(data, entry)
      [] entry = "Stocks.grouped_daily" -> market(data, entry)
      [] entry \in {"Options.previous_close", "Forex.previous_close",
                    "Stocks.previous_close"} -> previous_close(data)

\* the client function from the answer of requests.get to its end
ClientEnd(c, r) ==
    IF r.kind = "transport_error" THEN Raise("RequestException", MSG_CONNECT)
    ELSE IF r.kind = "non_json" THEN Raise("RequestException", MSG_NON_JSON)
    ELSE Classify(c.op, r.data, c.args)

\* requests.get returns or raises, and the invocation runs to its end
Respond(r) ==
    /\ pc = "awaiting"
    /\ pc' = "done"
    /\ response' = r
    /\ LET out == ClientEnd(call, r)
       IN  IF out.type = "return" /\ call.entry # "client"
           THEN /\ outcome' = Normalize(call.entry, out.value[1])
                /\ steps' = steps \o <<"decode", "classify", "normalize">>
                /\ stdout' = stdout \o Printed(call.entry, out.value[1])
                /\ payload' = PayloadAfter(call.entry, out.value[1])
           ELSE /\ outcome' = out
                /\ payload' = r.data
                /\ UNCHANGED stdout
                /\ steps' = steps \o (IF r.kind = "transport_error" THEN <<>>
                                      ELSE IF r.kind = "non_json" THEN <<"decode">>
                                      ELSE <<"decode", "classify">>)
    /\ UNCHANGED <<KEY, call, ticker, endpoint, gets, inv>>

\* the caller has its result; the next invocation starts afresh
Reset ==
    /\ pc = "done"
    /\ pc' = "idle"
    /\ call' = NoCall
    /\ ticker' = NoTicker
    /\ endpoint' = NoEndpoint
    /\ gets' = 0
    /\ steps' = <<>>
    /\ response' = NoResponse
    /\ outcome' = NoOutcome
    /\ stdout' = <<>>
    /\ payload' = NoResponse.data
    /\ UNCHANGED <<KEY, inv>>

\* every call within MaxOverrides parameters of the default call, against CoreResponses
Next ==
    \/ \E a \in Variants("crypto.get_aggregates", crypto_get_aggregates_default, MaxOverrides) :
           crypto_get_aggregates("client", a, a)
    \/ \E a \in Variants("crypto.get_daily_open_close", crypto_get_daily_open_close_default,
                         MaxOverrides) :
           crypto_get_daily_open_close("client", a, a)
    \/ \E a \in Variants("crypto.get_grouped_daily", crypto_get_grouped_daily_default,
                         MaxOverrides) :
           crypto_get_grouped_daily("client", a, a)
    \/ \E a \in Variants("crypto.get_previous_close", crypto_get_previous_close_default,
                         MaxOverrides) :
           crypto_get_previous_close("client", a, a)
    \/ \E a \in Variants("options.get_aggregates", options_get_aggregates_default, MaxOverrides) :
           options_get_aggregates("client", a, a)
    \/ \E a \in Variants("options.get_daily_open_close", options_get_daily_open_close_default,
                         MaxOverrides) :
           options_get_daily_open_close("client", a, a)
    \/ \E a \in Variants("options.get_previous_close", options_get_previous_close_default,
                         MaxOverrides) :
           options_get_previous_close("client", a, a)
    \/ \E f \in Variants("Crypto.aggregates", Crypto_aggregates_default, MaxOverrides) :
           Crypto_aggregates(f)
    \/ \E f \in Variants("crypto.get_grouped_daily", crypto_get_grouped_daily_default,
                         MaxOverrides) :
           Crypto_grouped_daily(f)
    \/ \E f \in Variants("crypto.get_previous_close", crypto_get_previous_close_default,
                         MaxOverrides) :
           Crypto_previous_close(f)
    \/ \E r \in CoreResponses : Respond(r)
    \/ Reset

Spec == Init /\ [][Next]_vars

\* the default call of every operation, against every upstream answer
NextUpstream ==
    \/ crypto_get_aggregates("client", crypto_get_aggregates_default,
                             crypto_get_aggregates_default)
    \/ crypto_get_daily_open_close("client", crypto_get_daily_open_close_default,
                                   crypto_get_daily_open_close_default)
    \/ crypto_get_grouped_daily("client", crypto_get_grouped_daily_default,
                                crypto_get_grouped_daily_default)
    \/ crypto_get_previous_close("client", crypto_get_previous_close_default,
                                 crypto_get_previous_close_default)
    \/ options_get_aggregates("client", options_get_aggregates_default,
                              options_get_aggregates_default)
    \/ options_get_daily_open_close("client", options_get_daily_open_close_default,
                                    options_get_daily_open_close_default)
    \/ options_get_previous_close("client", options_get_previous_close_default,
                                  options_get_previous_close_default)
    \/ Crypto_aggregates(Crypto_aggregates_default)
    \/ Crypto_grouped_daily(crypto_get_grouped_daily_default)
    \/ Crypto_previous_close(crypto_get_previous_close_default)
    \/ \E r \in AllResponses : Respond(r)
    \/ Reset

SpecUpstream == Init /\ [][NextUpstream]_vars

\* the default call of every facade field that builds bars, against the
\* successes the upstream can answer
NextFacade ==
    \/ Crypto_aggregates(Crypto_aggregates_default)
    \/ Crypto_daily_open_close(crypto_get_daily_open_close_default)
    \/ Crypto_grouped_daily(grouped_daily_default)
    \/ Crypto_previous_close(crypto_get_previous_close_default)
    \/ Options_aggregates(Options_aggregates_default)
    \/ Options_previous_close(Options_previous_close_default)
    \/ Forex_aggregates(Forex_aggregates_default)
    \/ Forex_grouped_daily(grouped_daily_default)
    \/ Forex_previous_close(Forex_previous_close_default)
    \/ Stocks_aggregates(Stocks_aggregates_default)
    \/ Stocks_grouped_daily(grouped_daily_default)
    \/ Stocks_previous_close(Stocks_previous_close_default)
    \/ \E r \in BarResponses \cup OpenCloseResponses : Respond(r)
    \/ Reset

SpecFacade == Init /\ [][NextFacade]_vars

----------------------------------------------------------------------------
(* Several invocations in progress at once.  Every name a client function   *)
(* or a facade field assigns is a parameter or a local variable of that     *)
(* call; polygon_client.KEY is the one module-level name, and it is only    *)
(* read.  Each invocation takes the same two steps as above, on its own     *)
(* slot of inv, in any interleaving with the others.                       *)

single == <<pc, call, ticker, endpoint, gets, steps, response, outcome, stdout, payload>>

\* Locals with the names at module level, where the invocation in slot 1
\* has assigned them
Locals_of_first(i) == IF inv[1].pc # "idle" THEN inv[1] ELSE inv[i]

\* the parameters and local variables invocation i reads
Locals(i) == inv[i]

Start(i, entry, fargs, op, a, err, raises, tk, ep) ==
    /\ inv[i].pc = "idle"
    /\ LET c == [entry |-> entry, fargs |-> fargs, op |-> op, args |-> a]
       IN  inv' = [inv EXCEPT ![i] =
                IF err # NoError
                THEN [NoLocals EXCEPT !.pc = "done", !.call = c,
                                      !.outcome = Raise("ValueError", err)]
                ELSE IF raises
                THEN [NoLocals EXCEPT !.pc = "done", !.call = c,
                        !.outcome = Raise("ValueError", "cannot convert float NaN to integer")]
                ELSE [NoLocals EXCEPT !.pc = "awaiting", !.call = c, !.ticker = tk,
                                      !.endpoint = ep]]
    /\ UNCHANGED <<KEY, single>>

concurrent_crypto_get_previous_close(i, a) ==
    Start(i, "client", a, "crypto.get_previous_close", a,
          crypto_get_previous_close_validate(a),
          FALSE, crypto_ticker(a), crypto_get_previous_close_endpoint(a, KEY))

concurrent_crypto_get_grouped_daily(i, a) ==
    Start(i, "client", a, "crypto.get_grouped_daily", a, crypto_get_grouped_daily_validate(a),
          FALSE, NoTicker, crypto_get_grouped_daily_endpoint(a, KEY))

concurrent_Crypto_aggregates(i, f) ==
    Start(i, "Crypto.aggregates", f, "crypto.get_aggregates", Crypto_aggregates_args(f),
          crypto_get_aggregates_validate(Crypto_aggregates_args(f)), FALSE,
          crypto_ticker(Crypto_aggregates_args(f)),
          crypto_get_aggregates_endpoint(Crypto_aggregates_args(f), KEY))

concurrent_Options_previous_close(i, f) ==
    Start(i, "Options.previous_close", f, "options.get_previous_close",
          Options_previous_close_args(f),
          options_get_previous_close_validate(Options_previous_close_args(f)),
          options_strike_raises(f.strike), options_ticker(Options_previous_close_args(f)),
          options_get_previous_close_endpoint(Options_previous_close_args(f), KEY))

\* requests.get of invocation i returns or raises, and i runs to its end
Finish(i, r) ==
    /\ inv[i].pc = "awaiting"
    /\ LET c == Locals(i).call
           out == ClientEnd(c, r)
       IN  inv' = [inv EXCEPT ![i].pc = "done", ![i].response = r,
                              ![i].outcome = IF out.type = "return" /\ c.entry # "client"
                                             THEN Normalize(c.entry, out.value[1])
                                             ELSE out]
    /\ UNCHANGED <<KEY, single>>

\* the caller of invocation i has its result
Leave(i) ==
    /\ inv[i].pc = "done"
    /\ inv' = [inv EXCEPT ![i] = NoLocals]
    /\ UNCHANGED <<KEY, single>>

ConcurrentDates == {Date0101, Date0105, Empty}
ConcurrentResponses ==
    {TransportError,
     Json(Body(<<"OK">>, <<>>, <<>>, <<1>>, <<<<ResultFull, ResultSparse>>>>)),
     Json(Body(<<"ERROR">>, <<ERR_DATE_INVALID(Date0105)>>, <<>>, <<>>, <<>>)),
     Json(Body(<<"NOT_FOUND">>, <<>>, <<MSG_NOT_FOUND>>, <<>>, <<>>))}

NextConcurrent ==
    \E i \in Invocations :
        \/ concurrent_crypto_get_previous_close(i, crypto_get_previous_close_default)
        \/ \E d \in ConcurrentDates :
               concurrent_crypto_get_grouped_daily(i, [date |-> d, adjusted |-> TRUE])
        \/ concurrent_Crypto_aggregates(i, Crypto_aggregates_default)
        \/ concurrent_Options_previous_close(i, Options_previous_close_default)
        \/ \E r \in ConcurrentResponses : Finish(i, r)
        \/ Leave(i)

SpecConcurrent == Init /\ [][NextConcurrent]_vars

----------------------------------------------------------------------------
(* The input constraints as the specification lists them, field by field *)

BadIdentifier(x) == x = Empty \/ Contains(x, "/")
BadDate(x) == x = Empty \/ Contains(x, "/") \/ ~Contains(x, "-")
BadWindow(a) ==
    \/ BadDate(a.from_) \/ BadDate(a.to)
    \/ a.multiplier < 1
    \/ a.timespan \notin {"minute", "hour", "day", "week", "month", "quarter", "year"}
    \/ a.limit < 1 \/ a.limit > 50000
StrikeInRange(strike) == ~strike.nan /\ 0 <= strike.th /\ strike.th <= 99999999
BadContract(a) ==
    \/ BadIdentifier(a.ticker)
    \/ BadDate(a.expiration) \/ Take(a.expiration, 2) # <<"2", "0">>
    \/ (~a.strike.nan /\ ~StrikeInRange(a.strike))

InputCheckFails(op, a) ==
    CASE op = "crypto.get_aggregates" ->
           BadIdentifier(a.currency_from) \/ BadIdentifier(a.currency_to) \/ BadWindow(a)
      [] op = "crypto.get_daily_open_close" ->
           BadIdentifier(a.currency_from) \/ BadIdentifier(a.currency_to) \/ BadDate(a.date)
      [] op = "crypto.get_grouped_daily" -> BadDate(a.date)
      [] op = "crypto.get_previous_close" ->
           BadIdentifier(a.currency_from) \/ BadIdentifier(a.currency_to)
      [] op = "options.get_aggregates" -> BadContract(a) \/ BadWindow(a)
      [] op = "options.get_daily_open_close" -> BadContract(a) \/ BadDate(a.date)
      [] op = "options.get_previous_close" -> BadContract(a)

Invoked == pc # "idle"
Rejected == pc = "done" /\ outcome.type = "ValueError" /\ gets = 0
OptionsOps == {"options.get_aggregates", "options.get_daily_open_close",
               "options.get_previous_close"}
CryptoPairOps == {"crypto.get_aggregates", "crypto.get_daily_open_close",
                  "crypto.get_previous_close"}

----------------------------------------------------------------------------
\* C1: in every client operation, when an input check fails the invocation
\* ends with a ValueError and no HTTP GET is issued at any point of it: the
\* GET counter stays 0, no URL is built and "GET" is not among its steps.
C1_NoGetAfterFailedCheck ==
    (Invoked /\ InputCheckFails(call.op, call.args))
        => /\ Rejected
           /\ endpoint.path = ""
           /\ ~Contains(steps, "GET")
           /\ steps = <<"validate">>

C1_Witness ==
    /\ pc = "done"
    /\ call.op = "options.get_daily_open_close"
    /\ call.args.expiration = Exp1999
    /\ InputCheckFails(call.op, call.args)
    /\ outcome = Raise("ValueError", "'expiration' date should be in the 21st century.")
    /\ gets = 0

\* The checks of crypto get_aggregates in the order the claim gives, each with
\* the message of its ValueError
C2_Checks(a) ==
    << [bad |-> a.currency_from = Empty, msg |-> "'currency_from' should be non-empty."],
       [bad |-> Contains(a.currency_from, "/"), msg |-> "'currency_from' should not include '/'."],
       [bad |-> a.currency_to = Empty, msg |-> "'currency_to' should be non-empty."],
       [bad |-> Contains(a.currency_to, "/"), msg |-> "'currency_to' should not include '/'."],
       [bad |-> a.from_ = Empty, msg |-> "'from_' date should be non-empty."],
       [bad |-> Contains(a.from_, "/"), msg |-> "'from_' date should not include '/'."],
       [bad |-> ~Contains(a.from_, "-"), msg |-> "'from_' date should be of format 'YYYY-MM-DD'."],
       [bad |-> a.to = Empty, msg |-> "'to' date should be non-empty."],
       [bad |-> Contains(a.to, "/"), msg |-> "'to' date should not include '/'."],
       [bad |-> ~Contains(a.to, "-"), msg |-> "'to' date should be of format 'YYYY-MM-DD'."],
       [bad |-> a.multiplier < 1, msg |-> "Timespan 'multiplier' should be at least 1."],
       [bad |-> a.timespan \notin {"minute", "hour", "day", "week", "month", "quarter", "year"},
        msg |-> "'timespan' should be 'minute', 'hour', 'day', 'week', 'month', 'quarter', or 'year'."],
       [bad |-> a.limit < 1, msg |-> "'limit' should be at least 1."],
       [bad |-> a.limit > 50000, msg |-> "'limit' should be no more than 50000."] >>

C2_Violated(a) == {i \in 1..Len(C2_Checks(a)) : C2_Checks(a)[i].bad}

\* C2: crypto get_aggregates reports the earliest violated check of the order
\* currency_from, currency_to, from_, to, multiplier, timespan, limit, and only
\* that one; when no check is violated it raises no validation error.
C2_FirstViolatedCheckReported ==
    (Invoked /\ call.op = "crypto.get_aggregates")
        => IF C2_Violated(call.args) # {}
           THEN /\ pc = "done"
                /\ outcome = Raise("ValueError",
                                   C2_Checks(call.args)[Least(C2_Violated(call.args))].msg)
           ELSE gets = 1

C2_Witness ==
    /\ pc = "done"
    /\ call.op = "crypto.get_aggregates"
    /\ call.args.currency_to = SlashCode
    /\ call.args.limit = 0
    /\ C2_Violated(call.args) = {4, 13}
    /\ outcome = Raise("ValueError", "'currency_to' should not include '/'.")

\* C3: with every other parameter valid, get_aggregates (crypto and options)
\* issues its GET exactly when 1 <= limit <= 50000 and otherwise raises a
\* ValueError without any GET.
C3_LimitRange ==
    (/\ Invoked
     /\ call.op \in {"crypto.get_aggregates", "options.get_aggregates"}
     /\ ~InputCheckFails(call.op, [call.args EXCEPT !.limit = 1])
     /\ (call.op = "options.get_aggregates" => ~call.args.strike.nan))
        => IF 1 <= call.args.limit /\ call.args.limit <= 50000
           THEN gets = 1 /\ endpoint.limit = call.args.limit
           ELSE Rejected

C3_Witness ==
    /\ pc = "awaiting"
    /\ call.op = "options.get_aggregates"
    /\ call.args.limit = 50000
    /\ gets = 1

\* C4: in the three options operations, with every other parameter valid, the
\* GET is issued exactly when 0 <= strike <= 99999.999; any other strike ends
\* in a ValueError without any GET.
C4_StrikeRange ==
    (/\ Invoked
     /\ call.op \in OptionsOps
     /\ ~InputCheckFails(call.op, [call.args EXCEPT !.strike = Finite(0)]))
        => IF StrikeInRange(call.args.strike) THEN gets = 1 ELSE Rejected

C4_Witness ==
    /\ pc = "awaiting"
    /\ call.op = "options.get_previous_close"
    /\ call.args.strike = Finite(99999999)
    /\ gets = 1

\* C5: every crypto client operation that builds a currency-pair identifier
\* builds "X:" followed by currency_to followed by currency_from, and the
\* aggregates and previous-close URLs carry that identifier.
C5_CurrencyPairIdentifier ==
    (Invoked /\ call.op \in CryptoPairOps /\ gets = 1)
        => LET to == call.args.currency_to
               from == call.args.currency_from
           IN  /\ Len(ticker) = 2 + Len(to) + Len(from)
               /\ ticker[1] = "X" /\ ticker[2] = ":"
               /\ \A i \in 1..Len(to) : ticker[2 + i] = to[i]
               /\ \A i \in 1..Len(from) : ticker[2 + Len(to) + i] = from[i]
               /\ (call.op # "crypto.get_daily_open_close" => endpoint.ticker = ticker)

C5_Witness ==
    /\ pc = "awaiting"
    /\ call.op = "crypto.get_previous_close"
    /\ call.args.currency_to = USD
    /\ call.args.currency_from = BTC
    /\ ticker = <<"X", ":", "U", "S", "D", "B", "T", "C">>

----------------------------------------------------------------------------
(* The option identifier read by position: "O:", the underlying, the date   *)
(* segment, one type letter and a strike segment of eight characters        *)

RECURSIVE TenTo(_)
TenTo(n) == IF n = 0 THEN 1 ELSE 10 * TenTo(n - 1)

\* the i-th of the eight decimal digits of a count of thousandths
ThousandthsDigit(th, i) == DigitChar((th \div TenTo(8 - i)) % 10)

IdentifierBuilt == Invoked /\ call.op \in OptionsOps /\ gets = 1
DateSegment == SubSeq(ticker, 3 + Len(call.args.ticker), Len(ticker) - 9)
TypeLetter == ticker[Len(ticker) - 8]
StrikeSegment == SubSeq(ticker, Len(ticker) - 7, Len(ticker))

\* C6: for every validated strike that is a whole number of thousandths, the
\* option identifier is "O:" + underlying + date segment + letter + strike
\* segment, the strike segment being the eight decimal digits of strike*1000
\* and the letter 'C' for a call and 'P' for a put.
C6_StrikeSegmentIsThousandths ==
    IdentifierBuilt
        => /\ Len(ticker) >= 11 + Len(call.args.ticker)
           /\ SubSeq(ticker, 1, 2 + Len(call.args.ticker)) = <<"O", ":">> \o call.args.ticker
           /\ TypeLetter = (IF call.args.call THEN "C" ELSE "P")
           /\ \A i \in 1..8 : StrikeSegment[i] = ThousandthsDigit(call.args.strike.th, i)

\* C7: for every expiration that passes the options validation, the date
\* segment of the identifier is the expiration without its first two
\* characters and without any '-', and it is six characters long (YYMMDD).
C7_DateSegmentIsSixCharacters ==
    IdentifierBuilt
        => /\ DateSegment = SelectSeq(SubSeq(call.args.expiration, 3, Len(call.args.expiration)),
                                      LAMBDA c : c # "-")
           /\ Len(DateSegment) = 6

----------------------------------------------------------------------------
(* How an invocation that reached the upstream ended *)

Answered == pc = "done" /\ response.kind # "none"
AnsweredObject == Answered /\ response.kind = "json" /\ response.data.type = "object"

NotFoundMessages ==
    {"Data not found for {ticker} from {from_} to {to} within {limit} {timespan} query limit. Perhaps currency pair is incorrect/unavailable, the market was not open in that date range, or 'limit' is too small.",
     "Data not found for {ticker}. Perhaps currency pair is incorrect/unavailable.",
     "Data not found for {ticker} from {from_} to {to} within {limit} {timespan} query limit. Perhaps specified option is incorrect, the market was not open in that date range, or 'limit' is too small.",
     "Data not found for {ticker}. Perhaps 'ticker' is incorrect."}

\* C8: whatever the upstream answers (no connection, a body that is no JSON,
\* any JSON value with any of status, error, message, resultsCount present or
\* absent), a client operation ends in a transport error, a decode error, a
\* recognized domain error, an unexpected-status error, an empty-result error
\* or a success, and never in another failure such as a missing-key error.
C8_EveryResponseClassified ==
    (Answered /\ call.entry = "client")
        => CASE response.kind = "transport_error" ->
                  outcome = Raise("RequestException", MSG_CONNECT)
             [] response.kind = "non_json" ->
                  outcome = Raise("RequestException", MSG_NON_JSON)
             [] OTHER ->
                  outcome.type \in {"return", "ValueError", "RequestException", "Exception"}

\* C9: aggregates, grouped daily and previous close end in the not-found
\* ValueError ("Data not found ...") whenever the upstream body has status
\* "OK" and resultsCount 0: never in a success, never in another failure.
C9_EmptyResultIsNotFound ==
    (/\ AnsweredObject
     /\ call.op \notin {"crypto.get_daily_open_close", "options.get_daily_open_close"}
     /\ response.data.status = <<"OK">>
     /\ response.data.resultsCount = <<0>>)
        => outcome.type = "ValueError" /\ outcome.msg \in NotFoundMessages

\* C10: previous close (crypto and options) answers a body with status
\* "ERROR" and error "Ticker was incorrectly formatted" with the ValueError
\* "'ticker' was incorrectly formatted.", never with the unexpected-status
\* Exception, whether or not the body has a message.
C10_TickerErrorOnPreviousClose ==
    (/\ AnsweredObject
     /\ call.op \in {"crypto.get_previous_close", "options.get_previous_close"}
     /\ response.data.status = <<"ERROR">>
     /\ response.data.error = <<ERR_TICKER>>)
        => outcome = Raise("ValueError", "'ticker' was incorrectly formatted.")

C10_Witness ==
    /\ AnsweredObject
    /\ call.op = "crypto.get_previous_close"
    /\ response.data.status = <<"ERROR">>
    /\ response.data.error = <<ERR_TICKER>>
    /\ response.data.message = <<MSG_NOT_FOUND>>
    /\ outcome.type = "ValueError"

----------------------------------------------------------------------------
\* C11: every client operation answers a body with status "ERROR" and the
\* upstream's quota-exhaustion error with the rate-limit RequestException
\* "Maximum requests per minute has been exceeded...", not with the
\* unexpected-status Exception.
C11_RateLimitRecognized ==
    (/\ AnsweredObject
     /\ response.data.status = <<"ERROR">>
     /\ response.data.error = <<ERR_RATE>>)
        => outcome = Raise("RequestException", MSG_RATE)

\* The upstream strings each operation compares with, per status
RecognizedErrors(op, a) ==
    CASE op \in {"crypto.get_aggregates", "options.get_aggregates"} ->
           {Txt("The parameter 'to' cannot be a time that occurs before 'from'"),
            Txt("Could not parse the time parameter: 'to'. Use YYYY-MM-DD or Unix MS Timestamps"),
            Txt("Could not parse the time parameter: 'from'. Use YYYY-MM-DD or Unix MS Timestamps")}
      [] op \in {"crypto.get_daily_open_close", "options.get_daily_open_close"} ->
           {Txt("today's Date not supported yet"),
            Txt("could not parse from Date. use YYYY-MM-DD timestamps"),
            Txt("Ticker was incorrectly formatted"),
            Txt("You've exceeded the maximum requests per minute, please wait or upgrade your subscription to continue.")}
      [] op = "crypto.get_grouped_daily" ->
           {TxtWith("The path parameter date with value {} is invalid, must be of the format YYYY-MM-DD.", a.date),
            Txt("You've exceeded the maximum requests per minute, please wait or upgrade your subscription to continue.")}
      [] op \in {"crypto.get_previous_close", "options.get_previous_close"} ->
           {Txt("Ticker was incorrectly formatted")}

RecognizedMessages(op, status) ==
    IF op \in {"crypto.get_daily_open_close", "options.get_daily_open_close"}
       /\ status = "NOT_FOUND"
    THEN {Txt("Data not found.")}
    ELSE IF op = "crypto.get_grouped_daily" /\ status = "NOT_AUTHORIZED"
    THEN {Txt("Attempted to request data past historical entitlements. Please upgrade your plan at https://polygon.io/pricing")}
    ELSE {}

\* the body carries an error (status ERROR) or a message (NOT_FOUND,
\* NOT_AUTHORIZED) that is none of the strings the operation recognizes
UnrecognizedString ==
    /\ AnsweredObject
    /\ \/ /\ response.data.status = <<"ERROR">>
          /\ Has(response.data, "error")
          /\ Get(response.data, "error") \notin RecognizedErrors(call.op, call.args)
       \/ /\ response.data.status \in {<<"NOT_FOUND">>, <<"NOT_AUTHORIZED">>}
          /\ Has(response.data, "message")
          /\ Get(response.data, "message")
                 \notin RecognizedMessages(call.op, Get(response.data, "status"))

\* C12: when the status is "ERROR", "NOT_FOUND" or "NOT_AUTHORIZED" and the
\* error/message string is not exactly one of the operation's recognized
\* strings (a different case or one character less included), the operation
\* ends in the unexpected-status Exception, never in a ValueError or a
\* RequestException.
C12_UnrecognizedStringIsUnexpectedStatus ==
    UnrecognizedString
        => /\ outcome.type = "Exception"
           /\ outcome.msg \in {MSG_UNKNOWN_WITH_MESSAGE, MSG_UNKNOWN_WITH_ERROR}

C12_Witness ==
    /\ UnrecognizedString
    /\ call.op = "options.get_daily_open_close"
    /\ response.data.status = <<"ERROR">>
    /\ response.data.error = <<Txt("ticker was incorrectly formatted")>>
    /\ response.data.message = <<>>
    /\ outcome = Raise("Exception", MSG_UNKNOWN_WITH_ERROR)

----------------------------------------------------------------------------
(* What a facade field handed back, against the upstream results *)

ListFacades ==
    {"Crypto.aggregates", "Crypto.grouped_daily", "Options.aggregates",
     "Forex.aggregates", "Forex.grouped_daily", "Stocks.aggregates", "Stocks.grouped_daily"}
RecordFacades ==
    {"Crypto.previous_close", "Options.previous_close", "Forex.previous_close",
     "Stocks.previous_close"}

Returned == pc = "done" /\ outcome.type = "return"
ListReturned == Returned /\ call.entry \in ListFacades
RecordReturned == Returned /\ call.entry \in RecordFacades
UpstreamResults == response.data.results[1]
Returns == outcome.value[1]

\* -1 for an absent key, the value of a present one
OrMinusOne(field) == IF field = <<>> THEN -1 ELSE field[1]

\* C13: every bar a facade returns has transactions = n of its upstream
\* result when the key n is present and -1 when it is absent, and vw_price =
\* vw when present and -1 when absent; a present 0 stays 0.
C13_SentinelForAbsentKeys ==
    /\ ListReturned =>
         \A i \in 1..Len(Returns) :
            /\ Returns[i].transactions = OrMinusOne(UpstreamResults[i].n)
            /\ Returns[i].vw_price = OrMinusOne(UpstreamResults[i].vw)
    /\ RecordReturned =>
         /\ Returns.transactions = OrMinusOne(UpstreamResults[1].n)
         /\ Returns.vw_price = OrMinusOne(UpstreamResults[1].vw)

C13_Witness ==
    /\ ListReturned
    /\ call.entry = "Options.aggregates"
    /\ UpstreamResults = <<ResultSparse, ResultZero>>
    /\ Returns[1].transactions = -1 /\ Returns[1].vw_price = -1
    /\ Returns[2].transactions = 0 /\ Returns[2].vw_price = 0

\* T without its first two characters when these are the marker, else T
WithoutMarker(T, marker) ==
    IF Len(T) >= 2 /\ T[1] = marker[1] /\ T[2] = marker[2]
    THEN [i \in 1..(Len(T) - 2) |-> T[i + 2]]
    ELSE T

\* C14: in grouped daily, the crypto facade returns each upstream ticker T
\* without its first two characters exactly when T begins with "X:", the
\* forex facade the same for "C:", and the stocks facade T unchanged.
C14_CategoryMarkerStripped ==
    (ListReturned /\ call.entry \in {"Crypto.grouped_daily", "Forex.grouped_daily",
                                     "Stocks.grouped_daily"})
        => \A i \in 1..Len(Returns) :
              Returns[i].ticker =
                 CASE call.entry = "Crypto.grouped_daily" ->
                        WithoutMarker(UpstreamResults[i].T[1], <<"X", ":">>)
                   [] call.entry = "Forex.grouped_daily" ->
                        WithoutMarker(UpstreamResults[i].T[1], <<"C", ":">>)
                   [] call.entry = "Stocks.grouped_daily" -> UpstreamResults[i].T[1]

C14_Witness ==
    /\ ListReturned
    /\ call.entry = "Crypto.grouped_daily"
    /\ UpstreamResults = <<ResultFull, ResultZero>>
    /\ Returns[1].ticker = <<"B", "T", "C", "U", "S", "D">>
    /\ Returns[2].ticker = <<"C", ":", "E", "U", "R", "U", "S", "D">>

\* the record is the bar of that upstream result
BuiltFrom(bar, result) ==
    /\ bar.close = result.c[1] /\ bar.high = result.h[1] /\ bar.low = result.l[1]
    /\ bar.open = result.o[1] /\ bar.volume = result.v[1]
    /\ bar.time.seconds = [mega |-> result.t[1].giga, units |-> result.t[1].rest \div 1000]

\* C15: a successful aggregates or grouped-daily call returns as many records
\* as the upstream results array has elements, the i-th record built from the
\* i-th result, whatever resultsCount says.
C15_OneRecordPerResultInOrder ==
    ListReturned
        => /\ Len(Returns) = Len(UpstreamResults)
           /\ \A i \in 1..Len(Returns) : BuiltFrom(Returns[i], UpstreamResults[i])

C15_Witness ==
    /\ ListReturned
    /\ call.entry = "Crypto.aggregates"
    /\ response.data.resultsCount = <<1>>
    /\ UpstreamResults = <<ResultSparse, ResultFull>>
    /\ Returns[1].time.seconds.units = 0
    /\ Returns[2].time.seconds.units = 1

\* the i-th upstream result lacks a key the facade reads with result[...]
LacksRequired(result, withTicker) ==
    \/ \E k \in {"c", "h", "l", "o", "t", "v"} : result[k] = <<>>
    \/ withTicker /\ result.T = <<>>

Complete(bar) ==
    \A k \in {"close", "high", "low", "transactions", "open", "time", "volume", "vw_price"} :
        k \in DOMAIN bar

C20_CryptoPreviousCloseCarriesTicker ==
    (/\ pc = "done"
     /\ call.entry = "Crypto.previous_close"
     /\ AnsweredObject
     /\ response.data.status = <<"OK">>
     /\ Has(response.data, "resultsCount") /\ response.data.resultsCount[1] >= 1
     /\ Has(response.data, "results") /\ Len(UpstreamResults) >= 1
     /\ ~LacksRequired(UpstreamResults[1], TRUE))
        => /\ outcome.type = "return"
           /\ Returns.ticker = UpstreamResults[1].T[1]
           /\ BuiltFrom(Returns, UpstreamResults[1])

----------------------------------------------------------------------------
StepRank(step) ==
    CASE step = "validate" -> 1
      [] step = "build" -> 2
      [] step = "GET" -> 3
      [] step = "decode" -> 4
      [] step = "classify" -> 5
      [] step = "normalize" -> 6

InOrder(ss) == \A i, j \in 1..Len(ss) : i < j => StepRank(ss[i]) < StepRank(ss[j])

ClientOps == OptionsOps \cup CryptoPairOps \cup {"crypto.get_grouped_daily"}

\* C17: an invocation of a client operation issues at most one HTTP GET and
\* exactly one when its input checks pass; once answered (transport failure,
\* non-JSON body, domain error, unexpected status, empty result or data) it
\* has issued that one GET and no other; its steps come in the order
\* validate, build identifier, GET, decode, classify.
C17_OneRequestPerInvocation ==
    (Invoked /\ call.op \in ClientOps)
        => /\ gets <= 1
           /\ ~InputCheckFails(call.op, call.args) => gets = 1
           /\ response.kind # "none" => gets = 1
           /\ InOrder(steps)

----------------------------------------------------------------------------
\* C19: the validation error of a facade field names the argument the
\* caller supplied wrongly: Crypto.aggregates called with an empty or
\* '/'-containing currency_to and a valid currency_from raises a ValueError
\* naming 'currency_to', and with an invalid currency_from and a valid
\* currency_to one naming 'currency_from'.
C19_MessageNamesCallersField ==
    (pc = "done" /\ call.entry = "Crypto.aggregates")
        => /\ (BadIdentifier(call.fargs.currency_to) /\ ~BadIdentifier(call.fargs.currency_from))
                => /\ outcome.type = "ValueError"
                   /\ outcome.msg \in {"'currency_to' should be non-empty.",
                                       "'currency_to' should not include '/'."}
           /\ (BadIdentifier(call.fargs.currency_from) /\ ~BadIdentifier(call.fargs.currency_to))
                => /\ outcome.type = "ValueError"
                   /\ outcome.msg \in {"'currency_from' should be non-empty.",
                                       "'currency_from' should not include '/'."}

----------------------------------------------------------------------------
\* the ValueError of the input checks of the call, "" when they pass
InputError(c) ==
    CASE c.op = "crypto.get_previous_close" -> crypto_get_previous_close_validate(c.args)
      [] c.op = "crypto.get_grouped_daily" -> crypto_get_grouped_daily_validate(c.args)
      [] c.op = "crypto.get_aggregates" -> crypto_get_aggregates_validate(c.args)
      [] c.op = "options.get_previous_close" -> options_get_previous_close_validate(c.args)

\* how the call ends when it is the only one in progress and the upstream
\* answers r
Alone(c, r) ==
    IF InputError(c) # NoError THEN Raise("ValueError", InputError(c))
    ELSE LET out == ClientEnd(c, r)
         IN  IF out.type = "return" /\ c.entry # "client"
             THEN Normalize(c.entry, out.value[1])
             ELSE out

----------------------------------------------------------------------------
AggregatesOps == {"crypto.get_aggregates", "options.get_aggregates"}

\* C23: the aggregates URL carries sort=asc when the ascending flag is True
\* and sort=desc when it is False, and never another token; Sort.ASCENDING
\* reaches the client as True and Sort.DESCENDING as False; the parameter a
\* caller leaves out is ascending.
C23_SortTokenFromBoolean ==
    /\ Crypto_aggregates_default.sort = "ASCENDING"
    /\ crypto_get_aggregates_default.ascending /\ options_get_aggregates_default.ascending
    /\ (Invoked /\ call.op \in AggregatesOps /\ gets = 1)
          => /\ endpoint.sort \in {"asc", "desc"}
             /\ endpoint.sort = "asc" <=> call.args.ascending
             /\ call.entry = "Crypto.aggregates"
                  => /\ call.args.ascending <=> call.fargs.sort = "ASCENDING"
                     /\ endpoint.sort = "desc" <=> call.fargs.sort = "DESCENDING"

C23_Witness ==
    /\ pc = "awaiting"
    /\ call.entry = "Crypto.aggregates"
    /\ call.fargs.sort = "DESCENDING"
    /\ endpoint.sort = "desc"

----------------------------------------------------------------------------
\* C25: for the pair (currency_to, currency_from) the caller supplies, the
\* crypto facade fields aggregates, daily_open_close and previous_close all
\* query the identifier "X:" + currency_to + currency_from.
C25_SameOrientationInCryptoFacades ==
    (/\ Invoked
     /\ call.entry \in {"Crypto.aggregates", "Crypto.daily_open_close", "Crypto.previous_close"}
     /\ gets = 1)
        => ticker = <<"X", ":">> \o call.fargs.currency_to \o call.fargs.currency_from

----------------------------------------------------------------------------
\* the caller's strings that the URL path of the request carries
PathSegments ==
    {endpoint[k] : k \in DOMAIN endpoint \cap
                         {"ticker", "currency_to", "currency_from", "from_", "to", "date"}}

\* C26: in every crypto and options client operation, once the input checks
\* passed and the request is issued, no identifier or date placed in the URL
\* path contains '/': the currency-pair identifier, the option identifier,
\* from_, to and date each stay one path segment.
C26_NoSeparatorInPathSegments ==
    (Invoked /\ call.op \in ClientOps /\ gets = 1)
        => /\ ~Contains(ticker, "/")
           /\ \A seg \in PathSegments : ~Contains(seg, "/")

C26_Witness ==
    /\ pc = "awaiting"
    /\ call.op = "options.get_daily_open_close"
    /\ endpoint.date = Date0101
    /\ endpoint.ticker = ticker
    /\ Len(ticker) = 21

----------------------------------------------------------------------------
\* C27: whenever the client's previous-close function returns (the body has
\* status OK and a resultsCount other than 0), the previous_close facade
\* field returns a record, built from the first element of results alone.
C27_PreviousCloseFromFirstResult ==
    (/\ pc = "done"
     /\ call.entry \in RecordFacades
     /\ AnsweredObject
     /\ response.data.status = <<"OK">>
     /\ Has(response.data, "resultsCount") /\ response.data.resultsCount[1] # 0)
        => /\ outcome.type = "return"
           /\ Has(response.data, "results") /\ Len(UpstreamResults) >= 1
           /\ BuiltFrom(Returns, UpstreamResults[1])
           /\ Returns.transactions = OrMinusOne(UpstreamResults[1].n)
           /\ Returns.vw_price = OrMinusOne(UpstreamResults[1].vw)

----------------------------------------------------------------------------
\* epoch_ms div 1000 whole seconds and (epoch_ms mod 1000) milliseconds
ExactTime(t) ==
    [seconds |-> [mega |-> t.giga, units |-> t.rest \div 1000],
     microsecond |-> (t.rest % 1000) * 1000]

OpenCloseReturned == Returned /\ call.entry = "Crypto.daily_open_close"

\* C22: for every non-negative integer epoch_ms in an upstream key t, the
\* time of the record is epoch_ms div 1000 whole seconds after the epoch
\* plus epoch_ms mod 1000 milliseconds, in the bars of every facade field
\* and in the opening and closing trades of Crypto.daily_open_close.
C22_TimeIsWholeMilliseconds ==
    /\ ListReturned =>
          \A i \in 1..Len(Returns) : Returns[i].time = ExactTime(UpstreamResults[i].t[1])
    /\ RecordReturned => Returns.time = ExactTime(UpstreamResults[1].t[1])
    /\ OpenCloseReturned =>
          /\ \A i \in 1..Len(Returns.closing_trades) :
                Returns.closing_trades[i].time = ExactTime(response.data.closingTrades[1][i].t[1])
          /\ \A i \in 1..Len(Returns.opening_trades) :
                Returns.opening_trades[i].time = ExactTime(response.data.openTrades[1][i].t[1])

----------------------------------------------------------------------------
\* C24: no facade field, Crypto.daily_open_close included, writes to standard
\* output, whatever the outcome: an invocation issues its one HTTP GET at
\* most and hands back a value or an error, and nothing else.
C24_NothingWrittenToStdout ==
    /\ stdout = <<>>
    /\ gets <= 1

----------------------------------------------------------------------------
Normalized == pc = "done" /\ call.entry # "client" /\ Contains(steps, "normalize")

============================================================================
